---- MODULE Spec2Model ----
(***************************************************************************)
(* Carrier integration service: the OAuth client-credentials token manager *)
(* (auth/oauth.ts) and the UPS rating adapter (carriers/ups/adapter.ts).   *)
(*                                                                         *)
(* Calls are JavaScript async functions on one event loop: a call runs     *)
(* without interruption up to its next await, and resumes in a later job.  *)
(* Every action below is one such uninterrupted run.                       *)
(***************************************************************************)
EXTENDS Integers, Sequences, FiniteSets, TLC

(***************************************************************************)
(* Bounds of the model                                                     *)
(***************************************************************************)
MaxTokenRequests == 3      \* token-endpoint requests issued in one run
MaxTicks == 1              \* clock advances in one run

\* the concurrent callers (of getRates or of getAccessToken)
Calls == {1, 2}

(***************************************************************************)
(* Program constants                                                       *)
(***************************************************************************)
bufferMs == 60000          \* isTokenValid: 60 second buffer
MsPerSecond == 1000        \* acquireToken: expires_in * 1000
MsPerDay == 1000 * 60 * 60 * 24

ClockStepMs == bufferMs    \* granularity of the modelled clock

(***************************************************************************)
(* Values                                                                  *)
(***************************************************************************)
Has(r, f) == f \in DOMAIN r

NoToken == [null |-> TRUE]          \* this.token = null
NoPromise == 0                      \* this.tokenRefreshPromise = null

NoResult == [type |-> "none"]
Value(v) == [type |-> "value", value |-> v]
Thrown(e) == [type |-> "error", error |-> e]

\* new Error(message) and the TypeError the runtime raises
RawError(name, message) == [name |-> name, message |-> message]

\* new CarrierIntegrationError(code, message, cause)
CarrierIntegrationError(code, message, cause) ==
    [name |-> "CarrierIntegrationError", code |-> code,
     message |-> message, cause |-> cause]

NoCause == [undefined |-> TRUE]

IsCarrierIntegrationError(e) == e.name = "CarrierIntegrationError"

ErrorCode ==
    {"AUTH_FAILED", "RATE_LIMITED", "INVALID_REQUEST", "CARRIER_UNAVAILABLE",
     "MALFORMED_RESPONSE", "NETWORK_ERROR", "TIMEOUT"}

(***************************************************************************)
(* The Transport (HttpClient.request): it returns a response or raises.    *)
(***************************************************************************)
Response(status, body) == [kind |-> "response", status |-> status, body |-> body]
Raise(e) == [kind |-> "raise", error |-> e]

TimeoutError == RawError("Error", "Request timeout")
FetchError == RawError("TypeError", "fetch failed")
TransportRaises == {Raise(TimeoutError), Raise(FetchError)}

\* history: what a caller saw of an answer
Seen(outcome) ==
    IF outcome.kind = "raise"
    THEN [kind |-> "raise", message |-> outcome.error.message,
          error |-> outcome.error]
    ELSE [kind |-> "response", status |-> outcome.status, body |-> outcome.body]

NullBody == [kind |-> "null"]               \* body null / undefined
TextBody == [kind |-> "text"]               \* body is a string (not JSON)
Json(obj) == [kind |-> "json", json |-> obj]

\* Token endpoint inputs
TokenStatuses == {200, 401, 500}
TokenStrings == {"tokA", "tokB"}
ExpiresInValues == {60, 120}

TokenJson ==
    {[access_token |-> a, token_type |-> "Bearer", expires_in |-> e] :
        a \in TokenStrings, e \in ExpiresInValues}
    \cup {[access_token |-> "tokA", expires_in |-> 120],
          [access_token |-> "", token_type |-> "Bearer", expires_in |-> 120],
          [access_token |-> "tokA", token_type |-> "Bearer", expires_in |-> 0],
          [access_token |-> "tokA", token_type |-> "Bearer"],
          [token_type |-> "Bearer", expires_in |-> 120],
          [token_type |-> "Bearer"],
          [error |-> "Unauthorized"]}

TokenBodies == {NullBody, TextBody} \cup {Json(j) : j \in TokenJson}

TokenOutcomes ==
    TransportRaises
    \cup {Response(s, b) : s \in TokenStatuses, b \in TokenBodies}

\* the token endpoint answers the concurrent callers are run against
GoodToken(a, e) == Json([access_token |-> a, token_type |-> "Bearer", expires_in |-> e])
ConcurrentTokenOutcomes ==
    {Response(200, GoodToken("tokA", 120)),
     Response(200, GoodToken("tokB", 60)),
     Response(401, Json([error |-> "Unauthorized"])),
     Response(200, Json([token_type |-> "Bearer"]))}

(***************************************************************************)
(* OAuthClient                                                             *)
(***************************************************************************)

\* JavaScript truthiness of a string / number property that may be absent
TruthyString(obj, f) == Has(obj, f) /\ obj[f] # ""
TruthyNumber(obj, f) == Has(obj, f) /\ obj[f] # 0

isTokenValid_Inclusive(tok, t) == t <= tok.expiresAt - bufferMs

\* isTokenValid: Date.now() < token.expiresAt - bufferMs
isTokenValid(tok, t) == t < tok.expiresAt - bufferMs


getAccessTokenPath_NoWait(tok, marker, t) ==
    IF tok # NoToken /\ isTokenValid(tok, t) THEN "hit" ELSE "start"

getAccessTokenPath_NoCache(tok, marker, t) ==
    IF marker # NoPromise THEN "join" ELSE "start"

\* getAccessToken, up to its first await: which of the three branches runs
getAccessTokenPath(tok, marker, t) ==
    IF tok # NoToken /\ isTokenValid(tok, t) THEN "hit"
    ELSE IF marker # NoPromise THEN "join"
    ELSE "start"

clearToken_Keep(tok) == tok

\* clearToken: this.token = null
clearToken(tok) == NoToken

\* the body the destructuring in acquireToken reads its properties from;
\* a string body has none of them
BodyProperties(body) == IF body.kind = "json" THEN body.json ELSE [none |-> TRUE]

acquireTokenWrap_Bare(error) == Thrown(error)

\* the catch block of acquireToken
acquireTokenWrap(error) ==
    IF IsCarrierIntegrationError(error) THEN Thrown(error)
    ELSE Thrown(CarrierIntegrationError("AUTH_FAILED",
                    "Failed to acquire OAuth token", error))

acquireToken_Milliseconds(outcome, t) ==
    IF outcome.kind = "raise" THEN acquireTokenWrap(outcome.error)
    ELSE IF outcome.status # 200
    THEN acquireTokenWrap(CarrierIntegrationError("AUTH_FAILED",
             "OAuth token request failed with status " \o ToString(outcome.status),
             RawError("Error", "HTTP " \o ToString(outcome.status))))
    ELSE IF outcome.body.kind = "null"
    THEN acquireTokenWrap(RawError("TypeError", "Cannot destructure"))
    ELSE LET obj == BodyProperties(outcome.body) IN
         IF ~TruthyString(obj, "access_token") \/ ~TruthyNumber(obj, "expires_in")
         THEN acquireTokenWrap(CarrierIntegrationError("MALFORMED_RESPONSE",
                  "OAuth response missing required fields",
                  RawError("Error", "Invalid OAuth response structure")))
         ELSE Value([accessToken |-> obj.access_token,
                     tokenType |-> IF TruthyString(obj, "token_type")
                                   THEN obj.token_type ELSE "Bearer",
                     expiresAt |-> t + obj.expires_in])

\* acquireToken, from the settling of httpClient.request to its own settling:
\* the value the acquisition promise is fulfilled with, or its rejection
acquireToken(outcome, t) ==
    IF outcome.kind = "raise" THEN acquireTokenWrap(outcome.error)
    ELSE IF outcome.status # 200
    THEN acquireTokenWrap(CarrierIntegrationError("AUTH_FAILED",
             "OAuth token request failed with status " \o ToString(outcome.status),
             RawError("Error", "HTTP " \o ToString(outcome.status))))
    ELSE IF outcome.body.kind = "null"
    THEN acquireTokenWrap(RawError("TypeError", "Cannot destructure"))
    ELSE LET obj == BodyProperties(outcome.body) IN
         IF ~TruthyString(obj, "access_token") \/ ~TruthyNumber(obj, "expires_in")
         THEN acquireTokenWrap(CarrierIntegrationError("MALFORMED_RESPONSE",
                  "OAuth response missing required fields",
                  RawError("Error", "Invalid OAuth response structure")))
         ELSE Value([accessToken |-> obj.access_token,
                     tokenType |-> IF TruthyString(obj, "token_type")
                                   THEN obj.token_type ELSE "Bearer",
                     expiresAt |-> t + obj.expires_in * MsPerSecond])

\* what a caller awaiting a settled acquisition promise resumes with
awaitRefresh_Rewrap(settled) ==
    IF settled.type = "value" THEN Value(settled.value.accessToken)
    ELSE Thrown(CarrierIntegrationError("AUTH_FAILED",
                    "Failed to acquire OAuth token", settled.error))

awaitRefresh(settled) ==
    IF settled.type = "value" THEN Value(settled.value.accessToken)
    ELSE Thrown(settled.error)


(***************************************************************************)
(* UPSAdapter: response transformation and status classification           *)
(***************************************************************************)

\* JavaScript numbers that may be NaN
Num(v) == [nan |-> FALSE, val |-> v]
NaN == [nan |-> TRUE, val |-> 0]

\* parseFloat on the monetary strings of the model; amounts are in hundredths
ParseFloat(s) ==
    CASE s = "25.50" -> Num(2550)
      [] s = "45.75" -> Num(4575)
      [] s = "0" -> Num(0)
      [] s = "-5.00" -> Num(-500)
      [] s = "12abc" -> Num(1200)
      [] OTHER -> NaN

\* new Date(s).getTime() on the date strings of the model, in milliseconds
ParseDate(s) ==
    CASE s = "1969-12-30T00:00:00Z" -> Num(-2 * MsPerDay)
      [] s = "1970-01-01T00:00:00Z" -> Num(0)
      [] s = "1970-01-01T12:00:00Z" -> Num(MsPerDay \div 2)
      [] s = "1970-01-03T00:00:00Z" -> Num(2 * MsPerDay)
      [] OTHER -> NaN

\* Math.ceil(a / b) for b > 0
CeilDiv(a, b) == -((-a) \div b)

\* a?.b?.c || fallback, on string properties
OrElse(v, fallback) == IF v = "" THEN fallback ELSE v
Prop(obj, f) == IF Has(obj, f) THEN obj[f] ELSE ""
Prop2(obj, f, g) == IF Has(obj, f) THEN Prop(obj[f], g) ELSE ""

\* shipment.TotalCharges || shipment.TransportationCharges
totalCharges(shipment) ==
    IF Has(shipment, "TotalCharges") THEN shipment.TotalCharges
    ELSE IF Has(shipment, "TransportationCharges")
    THEN shipment.TransportationCharges
    ELSE [none |-> TRUE]

\* estimatedDays of one rated shipment: absent, a number, or NaN
estimatedDays(shipment, t) ==
    IF Prop2(shipment, "GuaranteedDelivery", "Date") = "" THEN [absent |-> TRUE]
    ELSE LET deliveryDate == ParseDate(shipment.GuaranteedDelivery.Date) IN
         IF deliveryDate.nan THEN NaN
         ELSE LET days == CeilDiv(deliveryDate.val - t, MsPerDay) IN
              IF days < 0 THEN [absent |-> TRUE] ELSE Num(days)

\* the callback of RatedShipment.map: one quote, or the error it throws
transformShipment(shipment, t) ==
    LET serviceCode == OrElse(Prop2(shipment, "Service", "Code"), "UNKNOWN")
        serviceName == OrElse(Prop2(shipment, "Service", "Description"),
                              "Unknown Service")
        charges == totalCharges(shipment)
        est == estimatedDays(shipment, t)
        quote == [carrier |-> "UPS",
                  serviceLevel |-> serviceCode,
                  serviceName |-> serviceName,
                  totalCost |-> ParseFloat(Prop(charges, "MonetaryValue")).val,
                  currency |-> OrElse(Prop(charges, "CurrencyCode"), "USD"),
                  carrierQuoteId |-> serviceCode \o "-" \o ToString(t)]
    IN  IF Prop(charges, "MonetaryValue") = ""
        THEN Thrown(CarrierIntegrationError("MALFORMED_RESPONSE",
                 "UPS response missing charge information", NoCause))
        ELSE IF ParseFloat(charges.MonetaryValue).nan
        THEN Thrown(CarrierIntegrationError("MALFORMED_RESPONSE",
                 "Invalid cost value: " \o charges.MonetaryValue, NoCause))
        ELSE IF Has(est, "absent") THEN Value(quote)
        ELSE Value(quote @@ [estimatedDays |-> est])

errorDescription_AlertFirst(rateResponse) ==
    LET status == IF Has(rateResponse, "Response")
                  THEN Prop2(rateResponse.Response, "ResponseStatus", "Description")
                  ELSE ""
        alert == IF Has(rateResponse, "Response")
                    /\ Has(rateResponse.Response, "Alert")
                    /\ Len(rateResponse.Response.Alert) > 0
                 THEN Prop(rateResponse.Response.Alert[1], "Description")
                 ELSE ""
    IN  OrElse(alert, OrElse(status, "Unknown UPS error"))

\* the description of a failure envelope
errorDescription(rateResponse) ==
    LET status == IF Has(rateResponse, "Response")
                  THEN Prop2(rateResponse.Response, "ResponseStatus", "Description")
                  ELSE ""
        alert == IF Has(rateResponse, "Response")
                    /\ Has(rateResponse.Response, "Alert")
                    /\ Len(rateResponse.Response.Alert) > 0
                 THEN Prop(rateResponse.Response.Alert[1], "Description")
                 ELSE ""
    IN  OrElse(status, OrElse(alert, "Unknown UPS error"))

transformResponse_EmptyFails(body, t) ==
    IF body.kind = "null"
    THEN Thrown(RawError("TypeError", "Cannot read properties of undefined"))
    ELSE IF body.kind = "text" \/ ~Has(body.json, "RateResponse")
    THEN Thrown(CarrierIntegrationError("MALFORMED_RESPONSE",
             "UPS response missing RateResponse", NoCause))
    ELSE LET rateResponse == body.json.RateResponse
             code == IF Has(rateResponse, "Response")
                     THEN Prop2(rateResponse.Response, "ResponseStatus", "Code")
                     ELSE ""
         IN  IF code # "1"
             THEN Thrown(CarrierIntegrationError("INVALID_REQUEST",
                      "UPS API error: " \o errorDescription(rateResponse), NoCause))
             ELSE IF ~Has(rateResponse, "RatedShipment")
                     \/ Len(rateResponse.RatedShipment) = 0
             THEN Thrown(CarrierIntegrationError("MALFORMED_RESPONSE",
                      "UPS response missing RatedShipment", NoCause))
             ELSE LET list == rateResponse.RatedShipment
                      mapped == [i \in 1..Len(list) |-> transformShipment(list[i], t)]
                      failed == {i \in 1..Len(list) : mapped[i].type = "error"}
                  IN  IF failed # {}
                      THEN mapped[CHOOSE i \in failed : \A j \in failed : i <= j]
                      ELSE Value([i \in 1..Len(list) |-> mapped[i].value])

transformResponse_Reversed(body, t) ==
    IF body.kind = "null"
    THEN Thrown(RawError("TypeError", "Cannot read properties of undefined"))
    ELSE IF body.kind = "text" \/ ~Has(body.json, "RateResponse")
    THEN Thrown(CarrierIntegrationError("MALFORMED_RESPONSE",
             "UPS response missing RateResponse", NoCause))
    ELSE LET rateResponse == body.json.RateResponse
             code == IF Has(rateResponse, "Response")
                     THEN Prop2(rateResponse.Response, "ResponseStatus", "Code")
                     ELSE ""
         IN  IF code # "1"
             THEN Thrown(CarrierIntegrationError("INVALID_REQUEST",
                      "UPS API error: " \o errorDescription(rateResponse), NoCause))
             ELSE IF ~Has(rateResponse, "RatedShipment")
                     \/ Len(rateResponse.RatedShipment) = 0
             THEN Value(<<>>)
             ELSE LET list == rateResponse.RatedShipment
                      mapped == [i \in 1..Len(list) |-> transformShipment(list[i], t)]
                      failed == {i \in 1..Len(list) : mapped[i].type = "error"}
                  IN  IF failed # {}
                      THEN mapped[CHOOSE i \in failed : \A j \in failed : i <= j]
                      ELSE Value([i \in 1..Len(list) |-> mapped[Len(list) + 1 - i].value])

\* transformResponse(response.body) at time t: the quotes, or what it throws
transformResponse_Partial(body, t) ==
    IF body.kind = "null"
    THEN Thrown(RawError("TypeError", "Cannot read properties of undefined"))
    ELSE IF body.kind = "text" \/ ~Has(body.json, "RateResponse")
    THEN Thrown(CarrierIntegrationError("MALFORMED_RESPONSE",
             "UPS response missing RateResponse", NoCause))
    ELSE LET rateResponse == body.json.RateResponse
             code == IF Has(rateResponse, "Response")
                     THEN Prop2(rateResponse.Response, "ResponseStatus", "Code")
                     ELSE ""
         IN  IF code # "1"
             THEN Thrown(CarrierIntegrationError("INVALID_REQUEST",
                      "UPS API error: " \o errorDescription(rateResponse), NoCause))
             ELSE IF ~Has(rateResponse, "RatedShipment")
                     \/ Len(rateResponse.RatedShipment) = 0
             THEN Value(<<>>)
             ELSE LET list == rateResponse.RatedShipment
                      mapped == [i \in 1..Len(list) |-> transformShipment(list[i], t)]
                      good == SelectSeq(mapped, LAMBDA m : m.type = "value")
                  IN  Value([i \in 1..Len(good) |-> good[i].value])

transformResponse(body, t) ==
    IF body.kind = "null"
    THEN Thrown(RawError("TypeError", "Cannot read properties of undefined"))
    ELSE IF body.kind = "text" \/ ~Has(body.json, "RateResponse")
    THEN Thrown(CarrierIntegrationError("MALFORMED_RESPONSE",
             "UPS response missing RateResponse", NoCause))
    ELSE LET rateResponse == body.json.RateResponse
             code == IF Has(rateResponse, "Response")
                     THEN Prop2(rateResponse.Response, "ResponseStatus", "Code")
                     ELSE ""
         IN  IF code # "1"
             THEN Thrown(CarrierIntegrationError("INVALID_REQUEST",
                      "UPS API error: " \o errorDescription(rateResponse), NoCause))
             ELSE IF ~Has(rateResponse, "RatedShipment")
                     \/ Len(rateResponse.RatedShipment) = 0
             THEN Value(<<>>)
             ELSE LET list == rateResponse.RatedShipment
                      mapped == [i \in 1..Len(list) |-> transformShipment(list[i], t)]
                      failed == {i \in 1..Len(list) : mapped[i].type = "error"}
                  IN  IF failed # {}
                      THEN mapped[CHOOSE i \in failed : \A j \in failed : i <= j]
                      ELSE Value([i \in 1..Len(list) |-> mapped[i].value])

getRatesCatch_Rewrap(error) ==
    IF error.message = "Request timeout"
    THEN CarrierIntegrationError("TIMEOUT", "UPS API request timed out", error)
    ELSE CarrierIntegrationError("NETWORK_ERROR",
             "Network error communicating with UPS API", error)

getRatesCatch_NoTimeout(error) ==
    IF IsCarrierIntegrationError(error) THEN error
    ELSE CarrierIntegrationError("NETWORK_ERROR",
             "Network error communicating with UPS API", error)

\* the catch block of getRates
getRatesCatch(error) ==
    IF IsCarrierIntegrationError(error) THEN error
    ELSE IF error.message = "Request timeout"
    THEN CarrierIntegrationError("TIMEOUT", "UPS API request timed out", error)
    ELSE CarrierIntegrationError("NETWORK_ERROR",
             "Network error communicating with UPS API", error)

Caught(result) ==
    IF result.type = "error" THEN Thrown(getRatesCatch(result.error)) ELSE result

getRatesClassify_Above500(outcome, t) ==
    IF outcome.kind = "raise" THEN Caught(Thrown(outcome.error))
    ELSE IF outcome.status = 429
    THEN Thrown(CarrierIntegrationError("RATE_LIMITED",
             "UPS API rate limit exceeded", NoCause))
    ELSE IF outcome.status > 500
    THEN Thrown(CarrierIntegrationError("CARRIER_UNAVAILABLE",
             "UPS API returned server error: " \o ToString(outcome.status), NoCause))
    ELSE IF outcome.status # 200
    THEN Thrown(CarrierIntegrationError("INVALID_REQUEST",
             "UPS API returned error status: " \o ToString(outcome.status), NoCause))
    ELSE Caught(transformResponse(outcome.body, t))

\* getRates after the first dispatch settled with anything but status 401
getRatesClassify(outcome, t) ==
    IF outcome.kind = "raise" THEN Caught(Thrown(outcome.error))
    ELSE IF outcome.status = 429
    THEN Thrown(CarrierIntegrationError("RATE_LIMITED",
             "UPS API rate limit exceeded", NoCause))
    ELSE IF outcome.status >= 500
    THEN Thrown(CarrierIntegrationError("CARRIER_UNAVAILABLE",
             "UPS API returned server error: " \o ToString(outcome.status), NoCause))
    ELSE IF outcome.status # 200
    THEN Thrown(CarrierIntegrationError("INVALID_REQUEST",
             "UPS API returned error status: " \o ToString(outcome.status), NoCause))
    ELSE Caught(transformResponse(outcome.body, t))

\* getRates after the retried dispatch settled: the status is not looked at
getRatesRetry(outcome, t) ==
    IF outcome.kind = "raise" THEN Caught(Thrown(outcome.error))
    ELSE Caught(transformResponse(outcome.body, t))

\* Rating endpoint inputs
RatingStatuses == {200, 400, 401, 429, 500}

Ground == [Service |-> [Code |-> "03", Description |-> "Ground"],
           TotalCharges |-> [CurrencyCode |-> "USD", MonetaryValue |-> "25.50"]]
BadCost == [Service |-> [Code |-> "01"],
            TotalCharges |-> [CurrencyCode |-> "USD", MonetaryValue |-> "abc"]]

SuccessEnvelope(shipments) ==
    [RateResponse |-> [Response |-> [ResponseStatus |->
                          [Code |-> "1", Description |-> "Success"]],
                       RatedShipment |-> shipments]]
FailureEnvelope ==
    [RateResponse |-> [Response |-> [ResponseStatus |->
                          [Code |-> "0", Description |-> "Invalid"]]]]

RatingBodies ==
    {NullBody, Json([error |-> "Unauthorized"]), Json(FailureEnvelope),
     Json(SuccessEnvelope(<<Ground>>)), Json(SuccessEnvelope(<<Ground, BadCost>>))}

RatingOutcomes ==
    TransportRaises
    \cup {Response(s, b) : s \in RatingStatuses, b \in RatingBodies}

\* the rating endpoint answers the concurrent callers are run against
ConcurrentRatingOutcomes ==
    {Response(200, Json(SuccessEnvelope(<<Ground>>))),
     Response(401, Json([error |-> "Unauthorized"])),
     Response(500, Json([error |-> "Internal Server Error"]))}

\* an optional property: absent, or present with one of the values
Absent == [x \in {} |-> x]
Opt(f, vals) == {Absent} \cup {[x \in {f} |-> v] : v \in vals}

\* The rating answers one getRates call after the other is run against: every
\* optional part of UPSRateResponse absent and present
NextDayAir == [Service |-> [Code |-> "01", Description |-> "Next Day Air"],
               TotalCharges |-> [CurrencyCode |-> "USD", MonetaryValue |-> "45.75"]]

Services ==
    {[Code |-> "03", Description |-> "Ground"], [Code |-> "01"],
     [Description |-> "Next Day Air"]}

Charges ==
    {[CurrencyCode |-> "USD", MonetaryValue |-> "25.50"],
     [MonetaryValue |-> "45.75"],
     [CurrencyCode |-> "EUR", MonetaryValue |-> "0"],
     [CurrencyCode |-> "USD", MonetaryValue |-> "-5.00"],
     [CurrencyCode |-> "USD", MonetaryValue |-> "abc"],
     [CurrencyCode |-> "USD", MonetaryValue |-> "12abc"],
     [CurrencyCode |-> "USD", MonetaryValue |-> ""],
     [CurrencyCode |-> "USD"]}

FallbackCharges ==
    {[CurrencyCode |-> "CAD", MonetaryValue |-> "45.75"],
     [CurrencyCode |-> "CAD", MonetaryValue |-> "abc"],
     [CurrencyCode |-> "CAD"]}

Deliveries ==
    {[Date |-> "1969-12-30T00:00:00Z"], [Date |-> "1970-01-01T00:00:00Z"],
     [Date |-> "1970-01-01T12:00:00Z"], [Date |-> "1970-01-03T00:00:00Z"],
     [Date |-> "soon"], [Time |-> "103000"]}

RatedShipments ==
    {sv @@ [TotalCharges |-> Ground.TotalCharges] : sv \in Opt("Service", Services)}
    \cup {[Service |-> Ground.Service] @@ tc @@ fc :
              tc \in Opt("TotalCharges", Charges),
              fc \in Opt("TransportationCharges", FallbackCharges)}
    \cup {Ground @@ gd : gd \in Opt("GuaranteedDelivery", Deliveries)}

RatedShipmentLists ==
    {<<>>, <<NextDayAir, Ground, NextDayAir>>}
    \cup {<<sh>> : sh \in RatedShipments}
    \cup {<<a, b>> : a, b \in {Ground, NextDayAir, BadCost}}

ResponseStatuses ==
    {[Code |-> "0", Description |-> "Invalid"], [Code |-> "0"],
     [Code |-> "0", Description |-> ""], [Description |-> "No code"],
     [Code |-> "2", Description |-> "Warning"], Absent}

Alerts ==
    {<<>>, <<[Description |-> "Alert text"]>>, <<[Code |-> "110"]>>,
     <<[Description |-> "First"], [Description |-> "Second"]>>}

FailureResponses ==
    {rs @@ al : rs \in Opt("ResponseStatus", ResponseStatuses),
                al \in Opt("Alert", Alerts)}

SuccessResponses ==
    {[ResponseStatus |-> [Code |-> "1", Description |-> "Success"]],
     [ResponseStatus |-> [Code |-> "1"],
      Alert |-> <<[Code |-> "110", Description |-> "Alert text"]>>]}

RateResponses ==
    {rp @@ sh : rp \in Opt("Response", FailureResponses),
                sh \in Opt("RatedShipment", {<<Ground>>})}
    \cup {[Response |-> rp] @@ sh : rp \in SuccessResponses,
                                    sh \in Opt("RatedShipment", RatedShipmentLists)}

AnswerStatuses == {201, 400, 401, 404, 429, 500, 503}

RatingRaises == TransportRaises \cup {Raise(RawError("SyntaxError", "Unexpected token"))}

RatingAnswers ==
    RatingRaises
    \cup {Response(st, b) : st \in AnswerStatuses,
              b \in {Json([error |-> "Unauthorized"]), Json(SuccessEnvelope(<<Ground>>))}}
    \cup {Response(200, b) : b \in {NullBody, TextBody, Json([invalid |-> "structure"])}}
    \cup {Response(200, Json([RateResponse |-> r])) : r \in RateResponses}

\* the token endpoint answers of those runs
RatingTokenOutcomes ==
    {Response(200, GoodToken("tokA", 120)),
     Response(401, Json([error |-> "Unauthorized"]))}


(***************************************************************************)
(* CarrierIntegrationService (the facade) and the request validation       *)
(***************************************************************************)
NewYork ==
    [street |-> <<"123 Main St">>, city |-> "New York", stateOrProvince |-> "NY",
     postalCode |-> "10001", country |-> "US"]
LosAngeles ==
    [street |-> <<"456 Oak Ave">>, city |-> "Los Angeles", stateOrProvince |-> "CA",
     postalCode |-> "90001", country |-> "US"]
ValidRequest ==
    [origin |-> NewYork, destination |-> LosAngeles,
     packages |-> <<[weight |-> 5,
                     dimensions |-> [length |-> 10, width |-> 8, height |-> 6]]>>]

\* the requests the facade is called with
Requests ==
    {ValidRequest,
     [ValidRequest EXCEPT !.packages = <<[weight |-> 5]>>],
     [ValidRequest EXCEPT !.packages = <<>>],
     [ValidRequest EXCEPT !.origin.country = "USA"],
     [ValidRequest EXCEPT !.destination.country = "U"],
     [ValidRequest EXCEPT !.packages = <<[weight |-> 0]>>]}

AddressSchema_AnyCountry(address) ==
    /\ Len(address.street) >= 1
    /\ \A i \in 1..Len(address.street) : Len(address.street[i]) >= 1
    /\ Len(address.city) >= 1
    /\ Len(address.stateOrProvince) >= 1
    /\ Len(address.postalCode) >= 1

AddressSchema(address) ==
    /\ Len(address.street) >= 1
    /\ \A i \in 1..Len(address.street) : Len(address.street[i]) >= 1
    /\ Len(address.city) >= 1
    /\ Len(address.stateOrProvince) >= 1
    /\ Len(address.postalCode) >= 1
    /\ Len(address.country) = 2

PackageSchema(pkg) ==
    /\ pkg.weight > 0
    /\ Has(pkg, "dimensions")
       => /\ pkg.dimensions.length > 0
          /\ pkg.dimensions.width > 0
          /\ pkg.dimensions.height > 0

\* RateRequestSchema.safeParse(request).success
RateRequestSchema(request) ==
    /\ AddressSchema(request.origin)
    /\ AddressSchema(request.destination)
    /\ Len(request.packages) >= 1
    /\ \A i \in 1..Len(request.packages) : PackageSchema(request.packages[i])

\* config.shipperNumber of the adapter; "" when it is not configured
shipperNumber == ""

\* the requests the adapter's getRates is called with directly: it validates
\* nothing itself
AdapterRequests ==
    {ValidRequest,
     [ValidRequest EXCEPT !.packages =
         <<[weight |-> 10, dimensions |-> [length |-> 20, width |-> 15, height |-> 12]],
           [weight |-> 5],
           [weight |-> 2, dimensions |-> [length |-> 8, width |-> 6, height |-> 4]]>>],
     [ValidRequest EXCEPT !.packages = <<[weight |-> 5], [weight |-> 7]>>],
     [ValidRequest EXCEPT !.packages = <<>>],
     [ValidRequest EXCEPT !.origin.street = <<>>,
                          !.packages =
         <<[weight |-> 10, dimensions |-> [length |-> 20, width |-> 15, height |-> 12]],
           [weight |-> 5]>>],
     [ValidRequest EXCEPT !.destination.street = <<"456 Oak Ave", "Suite 9">>,
                          !.origin.street = <<>>]}

transformAddress_AlwaysLine(address) ==
    [AddressLine |-> address.street]
    @@ [City |-> address.city,
        StateProvinceCode |-> address.stateOrProvince,
        PostalCode |-> address.postalCode,
        CountryCode |-> address.country]

transformAddress(address) ==
    (IF Len(address.street) > 0 THEN [AddressLine |-> address.street] ELSE Absent)
    @@ [City |-> address.city,
        StateProvinceCode |-> address.stateOrProvince,
        PostalCode |-> address.postalCode,
        CountryCode |-> address.country]

\* the callback of request.packages.map
transformPackage(pkg) ==
    [PackagingType |-> [Code |-> "02"]]
    @@ (IF Has(pkg, "dimensions")
        THEN [Dimensions |-> [UnitOfMeasurement |-> [Code |-> "IN"],
                              Length |-> ToString(pkg.dimensions.length),
                              Width |-> ToString(pkg.dimensions.width),
                              Height |-> ToString(pkg.dimensions.height)]]
        ELSE Absent)
    @@ [PackageWeight |-> [UnitOfMeasurement |-> [Code |-> "LBS"],
                           Weight |-> ToString(pkg.weight)]]

transformRequest(request) ==
    [RateRequest |->
        [Request |-> [RequestOption |-> "Rate"],
         Shipment |->
            [Shipper |-> (IF shipperNumber # ""
                          THEN [ShipperNumber |-> shipperNumber] ELSE Absent)
                         @@ [Address |-> transformAddress(request.origin)],
             ShipTo |-> [Address |-> transformAddress(request.destination)],
             Package |-> [i \in 1..Len(request.packages) |->
                             transformPackage(request.packages[i])]]]]

\* config.carriers: the adapters in the order they were configured; the
\* getRates call on the adapter at position i is call Carriers[i]
Carriers == <<1, 2>>

\* carrier.getName() of the adapter that runs call c
getName(c) == "UPS"

\* String.prototype.toUpperCase on the carrier names of the model
ToUpperCase(s) ==
    CASE s \in {"UPS", "ups", "Ups"} -> "UPS"
      [] s \in {"FEDEX", "fedex"} -> "FEDEX"
      [] OTHER -> s

\* the carrier names getRatesFromCarrier is called with
CarrierNames == {"UPS", "ups", "Ups", "FEDEX", "fedex"}

findCarrier_CaseSensitive(carrierName) ==
    LET matching == {i \in 1..Len(Carriers) : getName(Carriers[i]) = carrierName}
    IN  IF matching = {} THEN 0
        ELSE CHOOSE i \in matching : \A j \in matching : i <= j

\* config.carriers.find(...): the position of the first adapter whose name
\* matches, 0 when find returns undefined
findCarrier(carrierName) ==
    LET matching == {i \in 1..Len(Carriers) :
                        ToUpperCase(getName(Carriers[i])) = ToUpperCase(carrierName)}
    IN  IF matching = {} THEN 0
        ELSE CHOOSE i \in matching : \A j \in matching : i <= j

carrierPromise_Propagate(name, result) ==
    IF result.type = "value"
    THEN Value([carrier |-> name, quotes |-> result.value])
    ELSE result

\* carrier.getRates(request).then(...).catch(...), once getRates settled
carrierPromise(name, result) ==
    IF result.type = "value"
    THEN Value([carrier |-> name, quotes |-> result.value])
    ELSE Value([carrier |-> name, quotes |-> <<>>])

\* Promise.all over promises settled (a result) or pending (NoResult)
promiseAll(ps) ==
    LET rejected == {i \in 1..Len(ps) : ps[i].type = "error"} IN
    IF rejected # {} THEN ps[CHOOSE i \in rejected : \A j \in rejected : i <= j]
    ELSE IF \A i \in 1..Len(ps) : ps[i].type = "value"
    THEN Value([i \in 1..Len(ps) |-> ps[i].value])
    ELSE NoResult

\* results.flatMap((result) => result.quotes)
RECURSIVE flatMap_Reversed(_)
flatMap_Reversed(results) ==
    IF results = <<>> THEN <<>>
    ELSE flatMap_Reversed(Tail(results)) \o Head(results).quotes

RECURSIVE flatMap(_)
flatMap(results) ==
    IF results = <<>> THEN <<>>
    ELSE Head(results).quotes \o flatMap(Tail(results))

\* the rating and token answers the facade's carriers are run against
FacadeRatingOutcomes ==
    {Response(200, Json(SuccessEnvelope(<<Ground>>))),
     Response(200, Json(SuccessEnvelope(<<NextDayAir, Ground>>))),
     Response(200, Json(FailureEnvelope)),
     Response(200, Json([invalid |-> "structure"])),
     Response(401, Json([error |-> "Unauthorized"])),
     Response(429, Json([error |-> "Too Many Requests"])),
     Response(500, Json([error |-> "Internal Server Error"])),
     Raise(TimeoutError),
     Raise(FetchError)}


(***************************************************************************)
(* State                                                                   *)
(***************************************************************************)
VARIABLES now,         \* Date.now(), in milliseconds
    token,                \* OAuthClient.token
    tokenRefreshPromise,  \* OAuthClient.tokenRefreshPromise: index into promises
    promises,             \* the promises acquireToken() returned, oldest first:
                          \* NoResult while the token request is outstanding
    calls,                \* the callers and where each is suspended
    installedBy,          \* history: the acquisition that produced token
    sinceClear,           \* history: "clear" after clearToken, "install" once a
                          \* token was installed after it, "none" once
                          \* getAccessToken was called after it
    facade                \* CarrierIntegrationService.getRates: where it is
                          \* suspended, its request and its result

vars == <<now, token, tokenRefreshPromise, promises, calls, installedBy, sinceClear,
          facade>>

IdleFacade ==
    [op |-> "none", pc |-> "idle", request |-> NoResult, carrierName |-> "",
     next |-> 1, result |-> NoResult, response |-> NoResult]

IdleCall ==
    [op |-> "none", pc |-> "idle", awaiting |-> NoPromise,
     tokenResult |-> NoResult, result |-> NoResult,
     request |-> NoResult,       \* the RateRequest getRates was called with
     body |-> NoResult,          \* upsRequest, the body of the rating dispatches
     authorization |-> <<>>,     \* the token of each rating dispatch
     responses |-> <<>>,         \* how each rating dispatch settled
     clears |-> 0,               \* clearToken invocations
     tokenCalls |-> <<>>]        \* history of the getAccessToken invocations

Init ==
    /\ now = 0
    /\ token = NoToken
    /\ tokenRefreshPromise = NoPromise
    /\ promises = <<>>
    /\ calls = [c \in Calls |-> IdleCall]
    /\ installedBy = 0
    /\ sinceClear = "none"
    /\ facade = IdleFacade

\* a promise: Pending while the token request is outstanding; once settled, what
\* it settled with and (history) the answer of the Transport; Collected when
\* nothing refers to it any more
Pending == [state |-> "pending"]
Collected == [state |-> "collected"]
Settled(res, outcome) == [state |-> "settled", settled |-> res, answer |-> outcome]

Outstanding == {a \in 1..Len(promises) : promises[a] = Pending}

\* a settled promise that neither the marker nor an awaiting caller refers to
\* is unreachable
Collect(ps, marker, cs) ==
    [a \in DOMAIN ps |->
        IF ps[a].state = "settled" /\ a # marker
           /\ \A c \in Calls : cs[c].awaiting # a
        THEN Collected ELSE ps[a]]

Settle(rec, res) ==
    [rec EXCEPT !.pc = "tokenSettled", !.awaiting = NoPromise, !.tokenResult = res,
                !.tokenCalls[Len(rec.tokenCalls)].result = res]

\* getAccessToken called by c with this.token = tok, up to its first await
CallGetAccessToken(c, tok, rec, cleared) ==
    LET path == getAccessTokenPath(tok, tokenRefreshPromise, now)
        fresh == Len(promises) + 1
        entry == [path |-> path,
                  acq |-> CASE path = "hit" -> installedBy
                            [] path = "join" -> tokenRefreshPromise
                            [] path = "start" -> fresh,
                  outstandingAtCall |-> Outstanding,
                  afterClear |-> cleared,
                  answer |-> [kind |-> "none"],
                  replaced |-> FALSE,
                  result |-> NoResult]
        called == [rec EXCEPT !.tokenCalls = Append(@, entry)]
    IN  /\ token' = tok
        /\ installedBy' = IF tok = NoToken THEN 0 ELSE installedBy
        /\ sinceClear' = "none"
        /\ now' = now
        /\ CASE path = "hit" ->
                  /\ calls' = [calls EXCEPT ![c] =
                                  Settle(called, Value(tok.accessToken))]
                  /\ UNCHANGED <<tokenRefreshPromise, promises>>
             [] path = "join" ->
                  /\ calls' = [calls EXCEPT ![c] =
                                  [called EXCEPT !.pc = "awaitRefresh",
                                                 !.awaiting = tokenRefreshPromise]]
                  /\ UNCHANGED <<tokenRefreshPromise, promises>>
             [] path = "start" ->
                  /\ Len(promises) < MaxTokenRequests
                  /\ promises' = Append(promises, Pending)
                  /\ tokenRefreshPromise' = fresh
                  /\ calls' = [calls EXCEPT ![c] =
                                  [called EXCEPT !.pc = "awaitAcquire",
                                                 !.awaiting = fresh]]

(***************************************************************************)
(* Token Manager operations                                                *)
(***************************************************************************)

\* a caller invokes oauthClient.getAccessToken() directly
GetAccessToken(c) ==
    /\ calls[c].pc = "idle"
    /\ CallGetAccessToken(c, token, [IdleCall EXCEPT !.op = "getAccessToken"],
                          sinceClear)
    /\ UNCHANGED facade

ClearToken_Cancel ==
    /\ token' = clearToken(token)
    /\ installedBy' = IF token' = NoToken THEN 0 ELSE installedBy
    /\ sinceClear' = "clear"
    /\ tokenRefreshPromise' = NoPromise
    /\ UNCHANGED <<now, promises, calls, facade>>

\* a caller invokes oauthClient.clearToken() directly
ClearToken ==
    /\ token' = clearToken(token)
    /\ installedBy' = IF token' = NoToken THEN 0 ELSE installedBy
    /\ sinceClear' = "clear"
    /\ UNCHANGED <<now, tokenRefreshPromise, promises, calls, facade>>

\* the token endpoint answers request a (or the Transport raises) and
\* acquireToken settles its promise
TokenEndpointRespond(a, outcome) ==
    /\ a \in Outstanding
    /\ promises' = [promises EXCEPT ![a] =
                       Settled(acquireToken(outcome, now), Seen(outcome))]
    /\ UNCHANGED <<now, token, tokenRefreshPromise, calls, installedBy, sinceClear,
                   facade>>

\* the caller that started the acquisition resumes after
\* "await this.tokenRefreshPromise": install, return; finally clear the marker
ResumeAcquire(c) ==
    LET a == calls[c].awaiting
        p == promises[a].settled
        resumed == [Settle(calls[c], IF p.type = "value"
                                     THEN Value(p.value.accessToken)
                                     ELSE Thrown(p.error))
                       EXCEPT !.tokenCalls[Len(calls[c].tokenCalls)].answer =
                                  promises[a].answer,
                              !.tokenCalls[Len(calls[c].tokenCalls)].replaced =
                                  (token' # token)]
    IN  /\ calls[c].pc = "awaitAcquire"
        /\ promises[a].state = "settled"
        /\ IF p.type = "value"
           THEN /\ token' = p.value
                /\ installedBy' = a
                /\ sinceClear' = IF sinceClear = "clear" THEN "install" ELSE sinceClear
           ELSE UNCHANGED <<token, installedBy, sinceClear>>
        /\ tokenRefreshPromise' = NoPromise
        /\ calls' = [calls EXCEPT ![c] = resumed]
        /\ promises' = Collect(promises, tokenRefreshPromise', calls')
        /\ now' = now
        /\ UNCHANGED facade

ResumeRefresh_OnSuccess(c) ==
    LET a == calls[c].awaiting
        resumed == [Settle(calls[c], awaitRefresh(promises[a].settled))
                       EXCEPT !.tokenCalls[Len(calls[c].tokenCalls)].answer =
                                  promises[a].answer]
    IN  /\ calls[c].pc = "awaitRefresh"
        /\ promises[a].state = "settled"
        /\ promises[a].settled.type = "value"
        /\ \A d \in Calls : ~(calls[d].pc = "awaitAcquire" /\ calls[d].awaiting = a)
        /\ calls' = [calls EXCEPT ![c] = resumed]
        /\ promises' = Collect(promises, tokenRefreshPromise, calls')
        /\ UNCHANGED <<now, token, tokenRefreshPromise, installedBy, sinceClear, facade>>

\* a caller that found an acquisition in progress resumes after its await; the
\* promise's reactions run in subscription order, the starter's first
ResumeRefresh(c) ==
    LET a == calls[c].awaiting
        resumed == [Settle(calls[c], awaitRefresh(promises[a].settled))
                       EXCEPT !.tokenCalls[Len(calls[c].tokenCalls)].answer =
                                  promises[a].answer]
    IN  /\ calls[c].pc = "awaitRefresh"
        /\ promises[a].state = "settled"
        /\ \A d \in Calls : ~(calls[d].pc = "awaitAcquire" /\ calls[d].awaiting = a)
        /\ calls' = [calls EXCEPT ![c] = resumed]
        /\ promises' = Collect(promises, tokenRefreshPromise, calls')
        /\ UNCHANGED <<now, token, tokenRefreshPromise, installedBy, sinceClear, facade>>

\* the direct caller's await of getAccessToken() settles
ReturnToken(c) ==
    /\ calls[c].op = "getAccessToken"
    /\ calls[c].pc = "tokenSettled"
    /\ calls' = [calls EXCEPT ![c].pc = "done", ![c].result = calls[c].tokenResult]
    /\ UNCHANGED <<now, token, tokenRefreshPromise, promises, installedBy, sinceClear,
                   facade>>

(***************************************************************************)
(* UPSAdapter.getRates                                                     *)
(***************************************************************************)

\* getRates up to "await this.config.oauthClient.getAccessToken()"
GetRates(c) ==
    /\ calls[c].pc = "idle"
    /\ CallGetAccessToken(c, token, [IdleCall EXCEPT !.op = "getRates"], sinceClear)
    /\ UNCHANGED facade

\* getRates(request) called on the adapter directly: transformRequest, then
\* up to "await this.config.oauthClient.getAccessToken()"
GetRatesRequest(c, request) ==
    /\ calls[c].pc = "idle"
    /\ CallGetAccessToken(c, token,
                          [IdleCall EXCEPT !.op = "getRates",
                                           !.request = request,
                                           !.body = transformRequest(request)],
                          sinceClear)
    /\ UNCHANGED facade

\* the token arrived: build the request and dispatch it (first or retried)
Dispatch(c) ==
    /\ calls[c].op = "getRates"
    /\ calls[c].pc = "tokenSettled"
    /\ calls[c].tokenResult.type = "value"
    /\ calls' = [calls EXCEPT ![c].pc = "awaitRating",
                              ![c].authorization =
                                  Append(@, calls[c].tokenResult.value)]
    /\ UNCHANGED <<now, token, tokenRefreshPromise, promises, installedBy, sinceClear,
                   facade>>

\* getAccessToken failed: the first fetch is outside the try block, the
\* re-acquisition inside it
TokenFetchFailed(c) ==
    /\ calls[c].op = "getRates"
    /\ calls[c].pc = "tokenSettled"
    /\ calls[c].tokenResult.type = "error"
    /\ calls' = [calls EXCEPT ![c].pc = "done",
                              ![c].result =
                                  IF Len(calls[c].authorization) = 0
                                  THEN calls[c].tokenResult
                                  ELSE Caught(calls[c].tokenResult)]
    /\ UNCHANGED <<now, token, tokenRefreshPromise, promises, installedBy, sinceClear,
                   facade>>

\* the first dispatch is answered 401: clearToken, getAccessToken again
RatingRejected(c, outcome) ==
    /\ calls[c].pc = "awaitRating"
    /\ Len(calls[c].authorization) = 1
    /\ outcome.kind = "response" /\ outcome.status = 401
    /\ CallGetAccessToken(c, clearToken(token),
                          [calls[c] EXCEPT !.responses = Append(@, Seen(outcome)),
                                           !.clears = @ + 1],
                          "clear")
    /\ UNCHANGED facade

\* the first dispatch settles otherwise: classification
RatingSettled_Clears(c, outcome) ==
    /\ calls[c].pc = "awaitRating"
    /\ Len(calls[c].authorization) = 1
    /\ ~(outcome.kind = "response" /\ outcome.status = 401)
    /\ calls' = [calls EXCEPT ![c].pc = "done",
                              ![c].responses = Append(@, Seen(outcome)),
                              ![c].result = getRatesClassify(outcome, now)]
    /\ token' = IF outcome.kind = "response" /\ outcome.status >= 500
                THEN clearToken(token) ELSE token
    /\ UNCHANGED <<now, tokenRefreshPromise, promises, installedBy, sinceClear,
                   facade>>

RatingSettled(c, outcome) ==
    /\ calls[c].pc = "awaitRating"
    /\ Len(calls[c].authorization) = 1
    /\ ~(outcome.kind = "response" /\ outcome.status = 401)
    /\ calls' = [calls EXCEPT ![c].pc = "done",
                              ![c].responses = Append(@, Seen(outcome)),
                              ![c].result = getRatesClassify(outcome, now)]
    /\ UNCHANGED <<now, token, tokenRefreshPromise, promises, installedBy, sinceClear,
                   facade>>

RetrySettled_Again(c, outcome) ==
    /\ calls[c].pc = "awaitRating"
    /\ Len(calls[c].authorization) >= 2
    /\ UNCHANGED facade
    /\ IF outcome.kind = "response" /\ outcome.status = 401
       THEN CallGetAccessToken(c, clearToken(token),
                [calls[c] EXCEPT !.responses = Append(@, Seen(outcome)),
                                 !.clears = @ + 1],
                "clear")
       ELSE /\ calls' = [calls EXCEPT ![c].pc = "done",
                                      ![c].responses = Append(@, Seen(outcome)),
                                      ![c].result = getRatesRetry(outcome, now)]
            /\ UNCHANGED <<now, token, tokenRefreshPromise, promises,
                           installedBy, sinceClear>>

\* the retried dispatch settles
RetrySettled(c, outcome) ==
    /\ calls[c].pc = "awaitRating"
    /\ Len(calls[c].authorization) = 2
    /\ calls' = [calls EXCEPT ![c].pc = "done",
                              ![c].responses = Append(@, Seen(outcome)),
                              ![c].result = getRatesRetry(outcome, now)]
    /\ UNCHANGED <<now, token, tokenRefreshPromise, promises, installedBy, sinceClear,
                   facade>>

\* the caller takes its result; it may call again
Return(c) ==
    /\ calls[c].pc = "done"
    /\ calls' = [calls EXCEPT ![c] = IdleCall]
    /\ UNCHANGED <<now, token, tokenRefreshPromise, promises, installedBy, sinceClear,
                   facade>>

(***************************************************************************)
(* CarrierIntegrationService.getRates                                      *)
(***************************************************************************)

\* getRates of the facade: validation; an invalid request fails at once
FacadeGetRates(request) ==
    /\ facade.pc = "idle"
    /\ \A c \in Calls : calls[c].pc = "idle"
    /\ facade' =
          IF RateRequestSchema(request)
          THEN [IdleFacade EXCEPT !.op = "getRates", !.pc = "map",
                                  !.request = request]
          ELSE [IdleFacade EXCEPT !.op = "getRates", !.pc = "done",
                   !.request = request,
                   !.result = Thrown(CarrierIntegrationError("INVALID_REQUEST",
                                  "Invalid rate request",
                                  RawError("ZodError", "validation failed")))]
    /\ UNCHANGED <<now, token, tokenRefreshPromise, promises, calls, installedBy,
                   sinceClear>>

\* config.carriers.map: the next carrier's getRates is called and runs up to
\* its first await; nothing else runs in between
CarrierGetRates(c) ==
    /\ facade.pc = "map"
    /\ Carriers[facade.next] = c
    /\ CallGetAccessToken(c, token,
                          [IdleCall EXCEPT !.op = "getRates",
                                           !.request = facade.request,
                                           !.body = transformRequest(facade.request)],
                          sinceClear)
    /\ facade' = IF facade.next = Len(Carriers)
                 THEN [facade EXCEPT !.pc = "awaitAll"]
                 ELSE [facade EXCEPT !.next = @ + 1]

\* await Promise.all(carrierPromises) settles: flatten and return
FacadeSettled ==
    LET settled == [i \in 1..Len(Carriers) |->
                       IF calls[Carriers[i]].pc = "done"
                       THEN carrierPromise("UPS", calls[Carriers[i]].result)
                       ELSE NoResult]
        results == promiseAll(settled)
    IN  /\ facade.pc = "awaitAll"
        /\ results # NoResult
        /\ facade' = [facade EXCEPT !.pc = "done",
                                    !.result = IF results.type = "value"
                                               THEN Value(flatMap(results.value))
                                               ELSE results]
        /\ UNCHANGED <<now, token, tokenRefreshPromise, promises, calls,
                       installedBy, sinceClear>>

\* getRatesFromCarrier: validation, lookup by name, and the adapter's getRates
\* up to its first await
FacadeGetRatesFromCarrier(carrierName, request) ==
    LET called == [IdleFacade EXCEPT !.op = "getRatesFromCarrier",
                                     !.request = request,
                                     !.carrierName = carrierName]
        found == findCarrier(carrierName)
    IN  /\ facade.pc = "idle"
        /\ \A c \in Calls : calls[c].pc = "idle"
        /\ IF ~RateRequestSchema(request)
           THEN /\ facade' = [called EXCEPT !.pc = "done",
                                 !.result = Thrown(CarrierIntegrationError(
                                     "INVALID_REQUEST", "Invalid rate request",
                                     RawError("ZodError", "validation failed")))]
                /\ UNCHANGED <<now, token, tokenRefreshPromise, promises, calls,
                               installedBy, sinceClear>>
           ELSE IF found = 0
           THEN /\ facade' = [called EXCEPT !.pc = "done",
                                 !.result = Thrown(CarrierIntegrationError(
                                     "CARRIER_UNAVAILABLE",
                                     "Carrier '" \o carrierName \o "' is not configured",
                                     NoCause))]
                /\ UNCHANGED <<now, token, tokenRefreshPromise, promises, calls,
                               installedBy, sinceClear>>
           ELSE /\ CallGetAccessToken(Carriers[found], token,
                                      [IdleCall EXCEPT !.op = "getRates",
                                           !.request = request,
                                           !.body = transformRequest(request)],
                                      sinceClear)
                /\ facade' = [called EXCEPT !.pc = "awaitCarrier"]

\* the promise carrier.getRates(request) returned settles, and with it the one
\* getRatesFromCarrier returned
CarrierSettled ==
    LET c == Carriers[findCarrier(facade.carrierName)] IN
    /\ facade.pc = "awaitCarrier"
    /\ calls[c].pc = "done"
    /\ facade' = [facade EXCEPT !.pc = "done", !.result = calls[c].result]
    /\ UNCHANGED <<now, token, tokenRefreshPromise, promises, calls,
                   installedBy, sinceClear>>

(***************************************************************************)
(* The REST front end (server.ts)                                          *)
(***************************************************************************)
getHttpStatusForError_NotFound(code) ==
    CASE code = "AUTH_FAILED" -> 401
      [] code = "RATE_LIMITED" -> 429
      [] code = "INVALID_REQUEST" -> 400
      [] code = "CARRIER_UNAVAILABLE" -> 404
      [] code \in {"MALFORMED_RESPONSE", "NETWORK_ERROR", "TIMEOUT"} -> 502
      [] OTHER -> 500

getHttpStatusForError(code) ==
    CASE code = "AUTH_FAILED" -> 401
      [] code = "RATE_LIMITED" -> 429
      [] code = "INVALID_REQUEST" -> 400
      [] code = "CARRIER_UNAVAILABLE" -> 503
      [] code \in {"MALFORMED_RESPONSE", "NETWORK_ERROR", "TIMEOUT"} -> 502
      [] OTHER -> 500

\* the error handling middleware: the status and the JSON body it sends
errorMiddleware(err) ==
    IF IsCarrierIntegrationError(err)
    THEN [status |-> getHttpStatusForError(err.code),
          body |-> [success |-> FALSE,
                    error |-> [code |-> err.code, message |-> err.message]
                              @@ (IF err.cause = NoCause THEN Absent
                                  ELSE [cause |-> err.cause.message])]]
    ELSE [status |-> 500,
          body |-> [success |-> FALSE,
                    error |-> [code |-> "INTERNAL_ERROR",
                               message |-> OrElse(err.message,
                                                  "Internal server error")]]]

\* the route handler resumes after its await of the facade: res.json on
\* success, next(error) and the error middleware on failure
Respond ==
    /\ facade.pc = "done"
    /\ facade' = [facade EXCEPT
          !.pc = "responded",
          !.response =
              IF facade.result.type = "error"
              THEN errorMiddleware(facade.result.error)
              ELSE [status |-> 200,
                    body |-> [success |-> TRUE, quotes |-> facade.result.value,
                              count |-> Len(facade.result.value)]
                             @@ (IF facade.op = "getRatesFromCarrier"
                                 THEN [carrier |-> ToUpperCase(facade.carrierName)]
                                 ELSE Absent)]]
    /\ UNCHANGED <<now, token, tokenRefreshPromise, promises, calls,
                   installedBy, sinceClear>>

\* a POST whose body express.json() cannot parse: the parser's error goes to
\* the error middleware and no route handler runs
PostUnparsableBody ==
    LET err == RawError("SyntaxError", "Unexpected token") IN
    /\ facade.pc = "idle"
    /\ \A c \in Calls : calls[c].pc = "idle"
    /\ facade' = [IdleFacade EXCEPT !.op = "post", !.pc = "responded",
                                    !.result = Thrown(err),
                                    !.response = errorMiddleware(err)]
    /\ UNCHANGED <<now, token, tokenRefreshPromise, promises, calls,
                   installedBy, sinceClear>>

\* the caller of the facade takes the result; it may call again
FacadeReturn ==
    /\ facade.pc \in {"done", "responded"}
    /\ \A c \in Calls : calls[c].pc \in {"idle", "done"}
    /\ facade' = IdleFacade
    /\ calls' = [c \in Calls |-> IdleCall]
    /\ UNCHANGED <<now, token, tokenRefreshPromise, promises, installedBy, sinceClear>>

\* time passes
Tick ==
    /\ now < MaxTicks * ClockStepMs
    /\ now' = now + ClockStepMs
    /\ UNCHANGED <<token, tokenRefreshPromise, promises, calls, installedBy, sinceClear,
                   facade>>

\* concurrent callers of one Token Manager and one adapter
Next ==
    \/ \E c \in Calls : GetAccessToken(c)
    \/ ClearToken
    \/ \E a \in 1..MaxTokenRequests, o \in ConcurrentTokenOutcomes :
          TokenEndpointRespond(a, o)
    \/ \E c \in Calls : ResumeAcquire(c)
    \/ \E c \in Calls : ResumeRefresh(c)
    \/ \E c \in Calls : ReturnToken(c)
    \/ \E c \in Calls : GetRates(c)
    \/ \E c \in Calls : Dispatch(c)
    \/ \E c \in Calls : TokenFetchFailed(c)
    \/ \E c \in Calls, o \in ConcurrentRatingOutcomes : RatingRejected(c, o)
    \/ \E c \in Calls, o \in ConcurrentRatingOutcomes : RatingSettled(c, o)
    \/ \E c \in Calls, o \in ConcurrentRatingOutcomes : RetrySettled(c, o)
    \/ Tick

Spec == Init /\ [][Next]_vars

\* the answers of the endpoints in the runs that are checked for termination
LiveTokenOutcomes ==
    {Response(200, GoodToken("tokA", 120)),
     Response(401, Json([error |-> "Unauthorized"]))}
LiveRatingOutcomes ==
    {Response(200, Json(SuccessEnvelope(<<Ground>>))),
     Response(401, Json([error |-> "Unauthorized"])),
     Raise(TimeoutError)}

\* the token request in flight is answered, or the Transport raises
TokenAnswered ==
    \E a \in 1..MaxTokenRequests, o \in LiveTokenOutcomes : TokenEndpointRespond(a, o)

\* the rating request c is waiting for is answered, or the Transport raises
RatingAnswered(c) ==
    \E o \in LiveRatingOutcomes :
        RatingRejected(c, o) \/ RatingSettled(c, o) \/ RetrySettled(c, o)

\* concurrent callers of one Token Manager and one adapter, each making one
\* call
NextLive ==
    \/ \E c \in Calls : GetAccessToken(c)
    \/ ClearToken
    \/ TokenAnswered
    \/ \E c \in Calls : ResumeAcquire(c)
    \/ \E c \in Calls : ResumeRefresh(c)
    \/ \E c \in Calls : ReturnToken(c)
    \/ \E c \in Calls : GetRates(c)
    \/ \E c \in Calls : Dispatch(c)
    \/ \E c \in Calls : TokenFetchFailed(c)
    \/ \E c \in Calls : RatingAnswered(c)
    \/ Tick

\* Every Transport request in flight is eventually answered or raises, and a
\* continuation whose promise has settled is eventually run by the event loop.
\* New calls, clearToken calls and the passing of time are not forced.
Fairness ==
    /\ WF_vars(TokenAnswered)
    /\ \A c \in Calls :
          /\ WF_vars(RatingAnswered(c))
          /\ WF_vars(ResumeAcquire(c))
          /\ WF_vars(ResumeRefresh(c))
          /\ WF_vars(ReturnToken(c))
          /\ WF_vars(Dispatch(c))
          /\ WF_vars(TokenFetchFailed(c))

SpecLive == Init /\ [][NextLive]_vars /\ Fairness

\* one caller, one call after the other, against every answer of the endpoints
NextSequential ==
    \/ GetAccessToken(1)
    \/ ClearToken
    \/ \E a \in 1..MaxTokenRequests, o \in TokenOutcomes : TokenEndpointRespond(a, o)
    \/ ResumeAcquire(1)
    \/ ReturnToken(1)
    \/ GetRates(1)
    \/ Dispatch(1)
    \/ TokenFetchFailed(1)
    \/ \E o \in RatingOutcomes : RatingRejected(1, o)
    \/ \E o \in RatingOutcomes : RatingSettled(1, o)
    \/ \E o \in RatingOutcomes : RetrySettled(1, o)
    \/ Return(1)
    \/ Tick

SpecSequential == Init /\ [][NextSequential]_vars

\* the tokens the token endpoint issues in the runs that are checked for
\* expiry, each with its expires_in
Issued == {<<"tokA", 120>>, <<"tokB", 60>>, <<"tokC", 30>>}
ExpiryTokenOutcomes ==
    {Response(200, GoodToken(i[1], i[2])) : i \in Issued}
    \cup {Response(401, Json([error |-> "Unauthorized"]))}

\* two callers, each calling getAccessToken again and again
NextExpiry ==
    \/ \E c \in Calls : GetAccessToken(c)
    \/ ClearToken
    \/ \E a \in 1..MaxTokenRequests, o \in ExpiryTokenOutcomes :
          TokenEndpointRespond(a, o)
    \/ \E c \in Calls : ResumeAcquire(c)
    \/ \E c \in Calls : ResumeRefresh(c)
    \/ \E c \in Calls : ReturnToken(c)
    \/ \E c \in Calls : Return(c)
    \/ Tick

SpecExpiry == Init /\ [][NextExpiry]_vars

\* one caller, one getRates call after the other, against every shape of the
\* rating answer
NextRating ==
    \/ \E a \in 1..MaxTokenRequests, o \in RatingTokenOutcomes :
          TokenEndpointRespond(a, o)
    \/ ResumeAcquire(1)
    \/ GetRates(1)
    \/ Dispatch(1)
    \/ TokenFetchFailed(1)
    \/ \E o \in RatingAnswers : RatingRejected(1, o)
    \/ \E o \in RatingAnswers : RatingSettled(1, o)
    \/ \E o \in RatingAnswers : RetrySettled(1, o)
    \/ Return(1)
    \/ Tick

SpecRating == Init /\ [][NextRating]_vars

\* one caller of the adapter, one getRates(request) call after the other, the
\* request not validated
NextRequest ==
    \/ \E r \in AdapterRequests : GetRatesRequest(1, r)
    \/ TokenAnswered
    \/ ResumeAcquire(1)
    \/ Dispatch(1)
    \/ TokenFetchFailed(1)
    \/ RatingAnswered(1)
    \/ Return(1)
    \/ Tick

SpecRequest == Init /\ [][NextRequest]_vars

\* the facade's all-carriers getRates, one call after the other, over two
\* adapters that share the Token Manager
NextFacade ==
    \/ \E r \in Requests : FacadeGetRates(r)
    \/ \E c \in Calls : CarrierGetRates(c)
    \/ FacadeSettled
    \/ \E n \in CarrierNames, r \in Requests : FacadeGetRatesFromCarrier(n, r)
    \/ CarrierSettled
    \/ Respond
    \/ PostUnparsableBody
    \/ FacadeReturn
    \/ \E a \in 1..MaxTokenRequests, o \in RatingTokenOutcomes :
          facade.pc # "map" /\ TokenEndpointRespond(a, o)
    \/ \E c \in Calls : facade.pc # "map" /\ ResumeAcquire(c)
    \/ \E c \in Calls : facade.pc # "map" /\ ResumeRefresh(c)
    \/ \E c \in Calls : facade.pc # "map" /\ Dispatch(c)
    \/ \E c \in Calls : facade.pc # "map" /\ TokenFetchFailed(c)
    \/ \E c \in Calls, o \in FacadeRatingOutcomes :
          facade.pc # "map" /\ RatingRejected(c, o)
    \/ \E c \in Calls, o \in FacadeRatingOutcomes :
          facade.pc # "map" /\ RatingSettled(c, o)
    \/ \E c \in Calls, o \in FacadeRatingOutcomes :
          facade.pc # "map" /\ RetrySettled(c, o)
    \/ facade.pc # "map" /\ Tick

SpecFacade == Init /\ [][NextFacade]_vars


(***************************************************************************)
(* Properties                                                              *)
(***************************************************************************)
TokenCalls(c) == calls[c].tokenCalls
Live == {ck \in Calls \X (1..3) : ck[2] <= Len(TokenCalls(ck[1]))}
Entry(ck) == TokenCalls(ck[1])[ck[2]]
Returned(e) == e.result # NoResult

\* C1: at most one token-endpoint request is outstanding (issued and not yet
\* settled), whatever the interleaving of getAccessToken and clearToken calls
C1_AtMostOneOutstanding == Cardinality(Outstanding) <= 1

\* one caller started the acquisition, another awaits it, after a clearToken
C1_Witness ==
    /\ Cardinality(Outstanding) = 1
    /\ sinceClear = "none"
    /\ \E c, d \in Calls :
          /\ calls[c].pc = "awaitAcquire" /\ calls[d].pc = "awaitRefresh"
          /\ calls[d].clears = 1

\* C2: getAccessToken calls that start with no valid token cached while a token
\* request is outstanding issue no request and await that one; the calls sharing
\* one acquisition (the one that issued it and the ones that awaited it) return
\* the same token string when it succeeds
C2_SingleFlight ==
    /\ \A ck \in Live :
          Entry(ck).outstandingAtCall # {} =>
              /\ Entry(ck).path = "join"
              /\ Entry(ck).outstandingAtCall = {Entry(ck).acq}
    /\ \A ck, dl \in Live :
          (/\ Entry(ck).path = "start" /\ Entry(dl).path = "join"
           /\ Entry(ck).acq = Entry(dl).acq
           /\ Returned(Entry(ck)) /\ Returned(Entry(dl))
           /\ Entry(ck).result.type = "value")
          => Entry(dl).result = Entry(ck).result
    /\ \A ck, dl \in Live :
          (Entry(ck).path = "start" /\ Entry(dl).path = "start"
           /\ Entry(ck).acq = Entry(dl).acq) => ck = dl

C2_Witness ==
    \E ck, dl \in Live :
        /\ ck[1] # dl[1]
        /\ Entry(ck).path = "start" /\ Entry(dl).path = "join"
        /\ Entry(dl).outstandingAtCall = {Entry(ck).acq}
        /\ Entry(ck).result.type = "value"
        /\ Entry(dl).result = Entry(ck).result
        /\ Len(promises) = 1

\* C3: when an acquisition fails, the call that started it and every call that
\* awaited it fail with the same error, and a call that awaited it makes no
\* token request of its own
C3_SharedFailure ==
    /\ \A ck, dl \in Live :
          (/\ Entry(ck).path = "start" /\ Entry(dl).path = "join"
           /\ Entry(ck).acq = Entry(dl).acq
           /\ Returned(Entry(dl)))
          => /\ Returned(Entry(ck))
             /\ Entry(ck).result.type = "error" => Entry(dl).result = Entry(ck).result
             /\ Entry(dl).result.type = "error" => Entry(dl).result = Entry(ck).result
    /\ \A ck \in Live :
          (/\ Entry(ck).path = "join" /\ Returned(Entry(ck))
           /\ Entry(ck).result.type = "error")
          => /\ Len(TokenCalls(ck[1])) = ck[2]
             /\ calls[ck[1]].pc \in {"tokenSettled", "done"}
             /\ Len(calls[ck[1]].authorization) < 2

C3_Witness ==
    \E ck, dl \in Live :
        /\ ck[1] # dl[1]
        /\ Entry(ck).path = "start" /\ Entry(dl).path = "join"
        /\ Entry(ck).acq = Entry(dl).acq
        /\ Entry(dl).result.type = "error"
        /\ Entry(dl).result.error.code = "MALFORMED_RESPONSE"
        /\ Entry(ck).result = Entry(dl).result

\* getAccessToken is invoked by c in this step on the token cached before it
CallsGetAccessToken(c) ==
    /\ Len(calls'[c].tokenCalls) = Len(calls[c].tokenCalls) + 1
    /\ calls'[c].clears = calls[c].clears
LastCall(c) == calls'[c].tokenCalls[Len(calls'[c].tokenCalls)]

\* C4: with a cached token that is valid, getAccessToken returns that token's
\* string, issues no token request and leaves the cached token and the
\* in-flight marker unchanged, however often it is called
C4_CacheHit ==
    [][\A c \in Calls :
          (/\ CallsGetAccessToken(c)
           /\ token # NoToken
           /\ now < token.expiresAt - 60000)
          => /\ LastCall(c).path = "hit"
             /\ LastCall(c).result = Value(token.accessToken)
             /\ calls'[c].tokenResult = Value(token.accessToken)
             /\ token' = token
             /\ tokenRefreshPromise' = tokenRefreshPromise
             /\ promises' = promises]_vars

\* both callers were served the token of the one token request
C4_Witness ==
    /\ Len(promises) = 1
    /\ \E c, d \in Calls :
          /\ c # d
          /\ Len(TokenCalls(c)) = 1 /\ Len(TokenCalls(d)) = 1
          /\ TokenCalls(c)[1].path = "start"
          /\ TokenCalls(d)[1].path = "hit"
          /\ TokenCalls(d)[1].result = TokenCalls(c)[1].result
          /\ calls[c].pc = "done" /\ calls[d].pc = "done"

\* C5: a cached token with expiry T is served from the cache if and only if
\* the current time is strictly before T - 60 s
C5_BufferBoundary ==
    [][\A c \in Calls :
          (CallsGetAccessToken(c) /\ token # NoToken)
          => (LastCall(c).path = "hit" <=> now < token.expiresAt - 60000)]_vars

\* a call made at exactly T - 60 s was not served the cached token
C5_Witness ==
    /\ token # NoToken
    /\ installedBy > 0
    /\ now = token.expiresAt - 60000
    /\ \E c \in Calls :
          /\ calls[c].pc = "awaitAcquire"
          /\ calls[c].awaiting > installedBy


IsGetRates(c) == calls[c].op = "getRates"
Dispatches(c) == Len(calls[c].authorization)
FirstRejected(c) ==
    /\ Len(calls[c].responses) >= 1
    /\ calls[c].responses[1].kind = "response"
    /\ calls[c].responses[1].status = 401
Failed(res, code) == res.type = "error" /\ res.error.code = code

\* C6 as stated: a getRates call whose first dispatch is answered 401 invokes
\* clearToken once, getAccessToken once more and makes exactly one further
\* dispatch; no call makes more than two dispatches
C6_Original ==
    \A c \in Calls :
        /\ Dispatches(c) <= 2
        /\ (IsGetRates(c) /\ calls[c].pc = "done" /\ FirstRejected(c))
           => /\ calls[c].clears = 1
              /\ Len(TokenCalls(c)) = 2
              /\ Dispatches(c) = 2

\* C6 amended: ... and makes exactly one further dispatch if that getAccessToken
\* returns a token, none (failing with the Token Manager's error) if it fails;
\* no call makes more than two dispatches or clears the token twice
C6_RetryOnce ==
    \A c \in Calls :
        /\ Dispatches(c) <= 2
        /\ calls[c].clears <= 1
        /\ Len(TokenCalls(c)) <= 2
        /\ (IsGetRates(c) /\ FirstRejected(c))
           => /\ calls[c].clears = 1
              /\ Len(TokenCalls(c)) = 2
        /\ (IsGetRates(c) /\ calls[c].pc = "done" /\ FirstRejected(c))
           => IF TokenCalls(c)[2].result.type = "value"
              THEN Dispatches(c) = 2 /\ Len(calls[c].responses) = 2
              ELSE /\ Dispatches(c) = 1
                   /\ calls[c].result = TokenCalls(c)[2].result
        /\ (IsGetRates(c) /\ ~FirstRejected(c))
           => calls[c].clears = 0 /\ Dispatches(c) <= 1

\* the retried dispatch was itself answered 401 and the call ended
C6_Witness ==
    \E c \in Calls :
        /\ calls[c].pc = "done" /\ FirstRejected(c)
        /\ Dispatches(c) = 2
        /\ calls[c].responses[2].kind = "response"
        /\ calls[c].responses[2].status = 401

\* C7: after a 401, a retried dispatch answered with a failing status makes
\* getRates fail with the kind the classification table gives that status
\* (429 RATE_LIMITED, >= 500 CARRIER_UNAVAILABLE); quotes come from the retry
\* only if its status is 200
C7_RetryClassified ==
    \A c \in Calls :
        (/\ IsGetRates(c) /\ calls[c].pc = "done"
         /\ Len(calls[c].responses) = 2
         /\ calls[c].responses[2].kind = "response")
        => LET status == calls[c].responses[2].status IN
           /\ status = 429 => Failed(calls[c].result, "RATE_LIMITED")
           /\ status >= 500 => Failed(calls[c].result, "CARRIER_UNAVAILABLE")
           /\ calls[c].result.type = "value" => status = 200

\* C8 as stated: no dispatch before getAccessToken returned a token to the call;
\* the token of the retried dispatch comes from a token request issued after
\* the call's clearToken, never from an acquisition already in flight
C8_Original ==
    \A c \in Calls :
        /\ Dispatches(c) >= 1
           => /\ TokenCalls(c)[1].result.type = "value"
              /\ calls[c].authorization[1] = TokenCalls(c)[1].result.value
        /\ Dispatches(c) = 2
           => /\ TokenCalls(c)[2].result.type = "value"
              /\ calls[c].authorization[2] = TokenCalls(c)[2].result.value
              /\ TokenCalls(c)[2].path = "start"
              /\ TokenCalls(c)[2].acq # TokenCalls(c)[1].acq

\* C8 amended: no dispatch before getAccessToken returned a token to the call;
\* the token of the retried dispatch is returned by the getAccessToken call made
\* right after the call's clearToken, never from the cache and never by the
\* acquisition that produced the rejected token: it is the result of a token
\* request the call issues after the clear, or of a concurrent caller's
\* acquisition whose in-flight marker was still set at the clear
C8_RetryTokenAfterClear ==
    \A c \in Calls :
        /\ Dispatches(c) >= 1
           => /\ TokenCalls(c)[1].result.type = "value"
              /\ calls[c].authorization[1] = TokenCalls(c)[1].result.value
        /\ Dispatches(c) = 2
           => /\ TokenCalls(c)[2].result.type = "value"
              /\ calls[c].authorization[2] = TokenCalls(c)[2].result.value
              /\ TokenCalls(c)[2].afterClear = "clear"
              /\ TokenCalls(c)[2].path \in {"start", "join"}
              /\ TokenCalls(c)[2].acq # TokenCalls(c)[1].acq
              /\ TokenCalls(c)[2].answer.kind = "response"
              /\ TokenCalls(c)[2].answer.status = 200
              /\ TokenCalls(c)[2].path = "join"
                 => \E dl \in Live :
                       /\ dl[1] # c
                       /\ Entry(dl).path = "start"
                       /\ Entry(dl).acq = TokenCalls(c)[2].acq

\* the retried dispatch carries the token of an acquisition the call joined
C8_Witness ==
    \E c \in Calls :
        /\ Dispatches(c) = 2
        /\ TokenCalls(c)[2].path = "join"
        /\ TokenCalls(c)[2].outstandingAtCall # {}

BodyHas(body, f) == body.kind = "json" /\ Has(body.json, f)

\* C10: a token-endpoint status other than 200 fails getAccessToken with
\* AUTH_FAILED; a 200 response lacking the access token or the expiry duration
\* (or with no body at all) fails it with MALFORMED_RESPONSE; only a 200
\* response carrying both yields a token; a failing acquisition does not
\* replace the cached token
C10_TokenResponseClassified ==
    \A ck \in Live :
        (Returned(Entry(ck)) /\ Entry(ck).answer.kind = "response")
        => LET answer == Entry(ck).answer
               lacks == ~BodyHas(answer.body, "access_token")
                        \/ ~BodyHas(answer.body, "expires_in")
           IN  /\ answer.status # 200 => Failed(Entry(ck).result, "AUTH_FAILED")
               /\ (answer.status = 200 /\ lacks)
                  => Failed(Entry(ck).result, "MALFORMED_RESPONSE")
               /\ Entry(ck).result.type = "value"
                  => answer.status = 200 /\ ~lacks
               /\ Entry(ck).result.type = "error" => ~Entry(ck).replaced

\* C11: when the Transport raises during token acquisition (a network failure
\* or a timeout), getAccessToken fails with AUTH_FAILED whose cause is the
\* raised error: never TIMEOUT or NETWORK_ERROR, never the bare error
C11_TransportFailureIsAuthFailed ==
    \A ck \in Live :
        (Returned(Entry(ck)) /\ Entry(ck).answer.kind = "raise")
        => /\ Entry(ck).result.type = "error"
           /\ IsCarrierIntegrationError(Entry(ck).result.error)
           /\ Entry(ck).result.error.code = "AUTH_FAILED"
           /\ Entry(ck).result.error.cause = Entry(ck).answer.error
           /\ ~Entry(ck).replaced

\* a token request timed out and getAccessToken returned to its caller
C11_Witness ==
    \E c \in Calls :
        /\ calls[c].op = "getAccessToken" /\ calls[c].pc = "done"
        /\ TokenCalls(c)[1].answer.kind = "raise"
        /\ TokenCalls(c)[1].answer.error = TimeoutError
        /\ Failed(calls[c].result, "AUTH_FAILED")

\* the instants at which a dispatch can settle
Times == {k * ClockStepMs : k \in 0..MaxTicks}

\* the first rating dispatch of c was answered with a response
FirstResponse(c) ==
    /\ IsGetRates(c)
    /\ Len(calls[c].responses) >= 1
    /\ calls[c].responses[1].kind = "response"

\* the call ended on its first dispatch, answered with status 200
Ended200(c) ==
    /\ FirstResponse(c) /\ calls[c].pc = "done"
    /\ calls[c].responses[1].status = 200

\* C12: the status s of the first rating dispatch's response decides the
\* outcome of getRates: 429 fails with RATE_LIMITED, s >= 500 with
\* CARRIER_UNAVAILABLE, 401 enters the auth retry, any other s # 200 fails with
\* INVALID_REQUEST, 200 goes on to the response transformation; a status other
\* than 200 and 401 never yields quotes
C12_FirstStatusClassified ==
    \A c \in Calls :
        FirstResponse(c)
        => LET st == calls[c].responses[1].status
               res == calls[c].result
           IN  /\ st = 401 <=> calls[c].clears = 1
               /\ st = 401 => Len(TokenCalls(c)) = 2
               /\ st # 401 => /\ calls[c].pc = "done"
                              /\ Dispatches(c) = 1 /\ Len(TokenCalls(c)) = 1
               /\ st = 429 => Failed(res, "RATE_LIMITED")
               /\ st >= 500 => Failed(res, "CARRIER_UNAVAILABLE")
               /\ (st \notin {200, 401, 429} /\ st < 500)
                  => Failed(res, "INVALID_REQUEST")
               /\ st \notin {200, 401} => res.type = "error"
               /\ st = 200
                  => \E t \in Times :
                        res = Caught(transformResponse(calls[c].responses[1].body, t))

\* a first dispatch answered 500 with a success envelope in its body ended the
\* call
C12_Witness ==
    \E c \in Calls :
        /\ FirstResponse(c) /\ calls[c].pc = "done"
        /\ calls[c].responses[1].status = 500
        /\ calls[c].responses[1].body = Json(SuccessEnvelope(<<Ground>>))
        /\ Failed(calls[c].result, "CARRIER_UNAVAILABLE")

\* the last rating dispatch of a finished getRates call
LastResponse(c) == calls[c].responses[Len(calls[c].responses)]

\* C13: when the Transport raises on a rating dispatch, first or retried,
\* getRates fails with TIMEOUT if a timeout was raised and otherwise with
\* NETWORK_ERROR whose cause is the raised error
C13_RaisedFailureClassified ==
    \A c \in Calls :
        (/\ IsGetRates(c) /\ calls[c].pc = "done"
         /\ Len(calls[c].responses) >= 1
         /\ LastResponse(c).kind = "raise")
        => /\ calls[c].result.type = "error"
           /\ IsCarrierIntegrationError(calls[c].result.error)
           /\ IF LastResponse(c).error = TimeoutError
              THEN calls[c].result.error.code = "TIMEOUT"
              ELSE /\ calls[c].result.error.code = "NETWORK_ERROR"
                   /\ calls[c].result.error.cause = LastResponse(c).error

\* after a 401, the retried dispatch timed out
C13_Witness ==
    \E c \in Calls :
        /\ IsGetRates(c) /\ calls[c].pc = "done"
        /\ Len(calls[c].responses) = 2
        /\ LastResponse(c).kind = "raise"
        /\ LastResponse(c).error = TimeoutError
        /\ Failed(calls[c].result, "TIMEOUT")

\* the call ended on a dispatch (first or retried) answered with status 200
Last200(c) ==
    /\ IsGetRates(c) /\ calls[c].pc = "done"
    /\ Len(calls[c].responses) >= 1
    /\ LastResponse(c).kind = "response"
    /\ LastResponse(c).status = 200

NoEnvelope(body) == ~BodyHas(body, "RateResponse")

\* C14: a status-200 rating response whose body has no RateResponse envelope,
\* be it an object without it, a body that is not an object or no body at all,
\* makes getRates fail with MALFORMED_RESPONSE
C14_NoEnvelopeMalformed ==
    \A c \in Calls :
        (Last200(c) /\ NoEnvelope(LastResponse(c).body))
        => Failed(calls[c].result, "MALFORMED_RESPONSE")

\* the envelope of a body that has one, and the parts of it
Envelope(body) == body.json.RateResponse
StatusOf(rr) ==
    IF Has(rr, "Response") /\ Has(rr.Response, "ResponseStatus")
    THEN rr.Response.ResponseStatus ELSE Absent
AlertsOf(rr) ==
    IF Has(rr, "Response") /\ Has(rr.Response, "Alert")
    THEN rr.Response.Alert ELSE <<>>
IsSuccess(rr) == Has(StatusOf(rr), "Code") /\ StatusOf(rr).Code = "1"
Given(obj, f) == Has(obj, f) /\ obj[f] # ""

\* C15: a status-200 rating response whose envelope's ResponseStatus.Code is
\* not "1" (or has no Response or no ResponseStatus) makes getRates fail with
\* INVALID_REQUEST, rated shipments in it or not; the error carries
\* ResponseStatus.Description when one is given (a non-empty text), else
\* Alert[0].Description, else the generic unknown-error text
C15_FailureEnvelope ==
    \A c \in Calls :
        (/\ Last200(c) /\ ~NoEnvelope(LastResponse(c).body)
         /\ ~IsSuccess(Envelope(LastResponse(c).body)))
        => LET rr == Envelope(LastResponse(c).body)
               description ==
                   IF Given(StatusOf(rr), "Description")
                   THEN StatusOf(rr).Description
                   ELSE IF Len(AlertsOf(rr)) >= 1
                           /\ Given(AlertsOf(rr)[1], "Description")
                   THEN AlertsOf(rr)[1].Description
                   ELSE "Unknown UPS error"
           IN  /\ Failed(calls[c].result, "INVALID_REQUEST")
               /\ calls[c].result.error.message = "UPS API error: " \o description

\* a failure envelope without a status description, with an alert and with a
\* rated shipment
C15_Witness ==
    \E c \in Calls :
        /\ Last200(c) /\ ~NoEnvelope(LastResponse(c).body)
        /\ LET rr == Envelope(LastResponse(c).body) IN
              /\ Has(StatusOf(rr), "Code") /\ StatusOf(rr).Code = "0"
              /\ ~Has(StatusOf(rr), "Description")
              /\ Has(rr, "RatedShipment")
        /\ calls[c].result.type = "error"
        /\ calls[c].result.error.message = "UPS API error: Alert text"

Shipments(rr) == IF Has(rr, "RatedShipment") THEN rr.RatedShipment ELSE <<>>

\* the call ended on a status-200 response carrying a success envelope
LastSuccess(c) ==
    /\ Last200(c) /\ ~NoEnvelope(LastResponse(c).body)
    /\ IsSuccess(Envelope(LastResponse(c).body))

\* C16: a status-200 response with a success envelope whose RatedShipment list
\* is absent or empty makes getRates return an empty quote list, not fail
C16_EmptyListIsNoError ==
    \A c \in Calls :
        (LastSuccess(c) /\ Len(Shipments(Envelope(LastResponse(c).body))) = 0)
        => calls[c].result = Value(<<>>)

\* a success envelope without a RatedShipment property was answered
C16_Witness ==
    \E c \in Calls :
        /\ LastSuccess(c)
        /\ ~Has(Envelope(LastResponse(c).body), "RatedShipment")
        /\ calls[c].result = Value(<<>>)

\* the charges a rated shipment's cost is read from, and its monetary value
ChargesOf(sh) ==
    IF Has(sh, "TotalCharges") THEN sh.TotalCharges
    ELSE IF Has(sh, "TransportationCharges") THEN sh.TransportationCharges
    ELSE Absent
WellFormed(sh) ==
    /\ Given(ChargesOf(sh), "MonetaryValue")
    /\ ~ParseFloat(ChargesOf(sh).MonetaryValue).nan

\* C17: a success envelope with k >= 1 well-formed rated shipments yields
\* exactly k quotes in the order of the RatedShipment list, the i-th with
\* carrier "UPS" and the i-th entry's service code and name ("UNKNOWN" and
\* "Unknown Service" when absent), cost and currency
C17_QuotesInOrder ==
    \A c \in Calls :
        LET list == Shipments(Envelope(LastResponse(c).body))
            quotes == calls[c].result.value
        IN  (/\ LastSuccess(c) /\ Len(list) >= 1
             /\ \A i \in 1..Len(list) : WellFormed(list[i]))
            => /\ calls[c].result.type = "value"
               /\ Len(quotes) = Len(list)
               /\ \A i \in 1..Len(list) :
                     LET sh == list[i]
                         service == IF Has(sh, "Service") THEN sh.Service ELSE Absent
                     IN  /\ quotes[i].carrier = "UPS"
                         /\ quotes[i].serviceLevel =
                                IF Given(service, "Code") THEN service.Code
                                ELSE "UNKNOWN"
                         /\ quotes[i].serviceName =
                                IF Given(service, "Description")
                                THEN service.Description ELSE "Unknown Service"
                         /\ quotes[i].totalCost =
                                ParseFloat(ChargesOf(sh).MonetaryValue).val
                         /\ quotes[i].currency =
                                IF Given(ChargesOf(sh), "CurrencyCode")
                                THEN ChargesOf(sh).CurrencyCode ELSE "USD"

\* three rated shipments of two services came back as three quotes
C17_Witness ==
    \E c \in Calls :
        /\ LastSuccess(c)
        /\ Shipments(Envelope(LastResponse(c).body)) = <<NextDayAir, Ground, NextDayAir>>
        /\ calls[c].result.type = "value"
        /\ Len(calls[c].result.value) = 3
        /\ calls[c].result.value[2].serviceLevel = "03"

\* the monetary value a rated shipment supplies: that of TotalCharges, else
\* that of TransportationCharges, else none
Supplied(sh) ==
    IF Has(sh, "TotalCharges") /\ Given(sh.TotalCharges, "MonetaryValue")
    THEN sh.TotalCharges.MonetaryValue
    ELSE IF Has(sh, "TransportationCharges")
            /\ Given(sh.TransportationCharges, "MonetaryValue")
    THEN sh.TransportationCharges.MonetaryValue
    ELSE ""
Unusable(sh) == Supplied(sh) = "" \/ ParseFloat(Supplied(sh)).nan

\* C18: the cost of a rated shipment is taken from TotalCharges, falling back
\* to TransportationCharges; getRates fails with MALFORMED_RESPONSE exactly when
\* neither field supplies a monetary value or the supplied value does not
\* parse as a number, and otherwise produces a quote for the shipment
C18_CostOrMalformed ==
    \A c \in Calls :
        LET list == Shipments(Envelope(LastResponse(c).body)) IN
        (LastSuccess(c) /\ Len(list) >= 1)
        => IF \E i \in 1..Len(list) : Unusable(list[i])
           THEN Failed(calls[c].result, "MALFORMED_RESPONSE")
           ELSE /\ calls[c].result.type = "value"
                /\ Len(calls[c].result.value) = Len(list)
                /\ \A i \in 1..Len(list) :
                      calls[c].result.value[i].totalCost =
                          ParseFloat(Supplied(list[i])).val

Classified(res) ==
    res.type = "error"
    => /\ IsCarrierIntegrationError(res.error)
       /\ res.error.code \in ErrorCode

\* C19: every failure of getAccessToken and every failure of the adapter's
\* getRates is a classified error with one of the seven kinds; an error the
\* Token Manager classified, in the initial fetch or in the re-acquisition
\* after a 401, reaches the caller of getRates unchanged
C19_AlwaysClassified ==
    /\ \A ck \in Live : Classified(Entry(ck).result)
    /\ \A c \in Calls :
          /\ Classified(calls[c].tokenResult)
          /\ Classified(calls[c].result)
          /\ (/\ IsGetRates(c) /\ calls[c].pc = "done"
              /\ TokenCalls(c)[Len(TokenCalls(c))].result.type = "error")
             => calls[c].result = TokenCalls(c)[Len(TokenCalls(c))].result

\* the re-acquisition after a 401 failed with MALFORMED_RESPONSE and getRates
\* failed with it
C19_Witness ==
    \E c \in Calls :
        /\ IsGetRates(c) /\ calls[c].pc = "done" /\ FirstRejected(c)
        /\ Failed(TokenCalls(c)[2].result, "MALFORMED_RESPONSE")
        /\ Failed(calls[c].result, "MALFORMED_RESPONSE")

\* the quotes adapter call c contributes
QuotesOf(c) ==
    IF calls[c].result.type = "value" THEN calls[c].result.value ELSE <<>>

\* C20: for a valid request the facade's all-carriers getRates does not fail
\* because an adapter failed: a failing adapter contributes an empty list and
\* the result holds exactly the quotes of the adapters that succeeded (an empty
\* list when all of them fail)
C20_FacadeSwallowsFailures ==
    (/\ facade.op = "getRates" /\ facade.pc = "done"
     /\ RateRequestSchema(facade.request))
    => /\ \A c \in Calls : calls[c].pc = "done" /\ IsGetRates(c)
       /\ facade.result = Value(QuotesOf(1) \o QuotesOf(2))

\* the first adapter failed, the second returned two quotes, and the facade
\* returned those two
C20_Witness ==
    /\ facade.op = "getRates" /\ facade.pc = "done"
    /\ calls[1].result.type = "error"
    /\ calls[2].result.type = "value"
    /\ Len(calls[2].result.value) = 2
    /\ facade.result = calls[2].result

\* C21: getRatesFromCarrier selects the adapter whose name equals the given name
\* ignoring letter case and returns its quotes or propagates its error
\* unchanged; when no configured adapter matches it fails with
\* CARRIER_UNAVAILABLE and calls no adapter
C21_SingleCarrier ==
    (/\ facade.op = "getRatesFromCarrier" /\ facade.pc = "done"
     /\ RateRequestSchema(facade.request))
    => IF facade.carrierName \in {"UPS", "ups", "Ups"}
       THEN /\ IsGetRates(1) /\ calls[1].pc = "done"
            /\ calls[2] = IdleCall
            /\ facade.result = calls[1].result
       ELSE /\ Failed(facade.result, "CARRIER_UNAVAILABLE")
            /\ \A c \in Calls : calls[c] = IdleCall

\* the adapter was selected by a lower-case name and its failure on a 500
\* answer reached the caller unchanged
C21_Witness ==
    /\ facade.op = "getRatesFromCarrier" /\ facade.pc = "done"
    /\ facade.carrierName = "ups"
    /\ calls[1].pc = "done"
    /\ Failed(calls[1].result, "CARRIER_UNAVAILABLE")
    /\ facade.result = calls[1].result

\* the invalid requests the callers make: no package, a package that weighs
\* nothing, a country code that is not two characters long
Invalid(request) ==
    \/ Len(request.packages) = 0
    \/ \E i \in 1..Len(request.packages) : request.packages[i].weight <= 0
    \/ Len(request.origin.country) # 2
    \/ Len(request.destination.country) # 2

\* C22: an adapter runs only for a request that passed validation; called with
\* an invalid request either entry point of the facade fails with
\* INVALID_REQUEST and issues no token request and no rating request
C22_ValidatedBeforeAdapter ==
    [][/\ (/\ facade.pc = "idle"
           /\ facade'.op \in {"getRates", "getRatesFromCarrier"}
           /\ Invalid(facade'.request))
          => /\ facade'.pc = "done"
             /\ Failed(facade'.result, "INVALID_REQUEST")
             /\ UNCHANGED <<promises, calls, token, tokenRefreshPromise>>
       /\ (\E c \in Calls : calls'[c] # IdleCall)
          => (facade'.pc # "idle" /\ ~Invalid(facade'.request))]_vars

\* the single-carrier entry point has refused a three-letter country code
\* after an earlier valid call had acquired a token
C22_Witness ==
    /\ facade.op = "getRatesFromCarrier" /\ facade.pc = "done"
    /\ Len(facade.request.origin.country) = 3
    /\ Failed(facade.result, "INVALID_REQUEST")
    /\ \A c \in Calls : calls[c] = IdleCall
    /\ token # NoToken

\* both getRates calls were made in one burst with no valid token cached: the
\* first started a token request, the second called getAccessToken while that
\* request was outstanding; both have ended, every rating dispatch answered 200
Burst ==
    /\ \A c \in Calls :
          /\ IsGetRates(c) /\ calls[c].pc = "done"
          /\ \A i \in 1..Len(calls[c].responses) :
                /\ calls[c].responses[i].kind = "response"
                /\ calls[c].responses[i].status = 200
    /\ Entry(<<1, 1>>).path = "start"
    /\ Entry(<<2, 1>>).outstandingAtCall = {Entry(<<1, 1>>).acq}
TokenRequests == {ck \in Live : Entry(ck).path = "start"}

\* C23 as stated: N concurrent getRates calls with no token cached, every
\* rating dispatch answered 200, issue exactly one token request and N rating
\* dispatches, and every call returns its quotes
C23_Original ==
    Burst => /\ Cardinality(TokenRequests) = 1
             /\ \A c \in Calls : Dispatches(c) = 1
             /\ \A c \in Calls : calls[c].result.type = "value"

\* C23: when moreover the token request succeeds, exactly one token request
\* is issued and each call makes exactly one rating dispatch, with the token of
\* that request; a call returns its quotes when its answer carries a success
\* envelope of well-formed rated shipments, and otherwise fails
C23_BurstSharesOneTokenRequest ==
    (Burst /\ Entry(<<1, 1>>).result.type = "value")
    => /\ Cardinality(TokenRequests) = 1
       /\ \A c \in Calls :
             /\ Dispatches(c) = 1
             /\ calls[c].authorization[1] = Entry(<<1, 1>>).result.value
             /\ LET body == LastResponse(c).body IN
                IF /\ LastSuccess(c)
                   /\ \A i \in 1..Len(Shipments(Envelope(body))) :
                         WellFormed(Shipments(Envelope(body))[i])
                THEN /\ calls[c].result.type = "value"
                     /\ Len(calls[c].result.value) = Len(Shipments(Envelope(body)))
                ELSE calls[c].result.type = "error"

\* two calls of one burst shared one token request and returned their quotes
C23_Witness ==
    /\ Burst /\ Entry(<<1, 1>>).result.type = "value"
    /\ \A c \in Calls : calls[c].result.type = "value"
    /\ Len(calls[1].result.value) = 1
    /\ Len(calls[2].result.value) = 2

\* C24: the estimated transit days of a returned quote, when present, is the
\* ceiling in whole days of the guaranteed delivery instant minus now and is
\* strictly positive; a ceiling of zero or less leaves the field out
C24_EstimatedDaysPositive ==
    \A c \in Calls :
        LET list == Shipments(Envelope(LastResponse(c).body))
            quotes == calls[c].result.value
        IN  (LastSuccess(c) /\ calls[c].result.type = "value")
            => \A i \in 1..Len(quotes) :
                  Has(quotes[i], "estimatedDays")
                  => /\ Has(list[i], "GuaranteedDelivery")
                     /\ Has(list[i].GuaranteedDelivery, "Date")
                     /\ ~quotes[i].estimatedDays.nan
                     /\ quotes[i].estimatedDays.val > 0
                     /\ \E t \in Times :
                           quotes[i].estimatedDays.val =
                               CeilDiv(ParseDate(list[i].GuaranteedDelivery.Date).val - t,
                                       MsPerDay)

\* C25: every quote getRates returns has a non-negative total cost, whatever
\* monetary value the carrier response carries
C25_CostNonNegative ==
    \A c \in Calls :
        (IsGetRates(c) /\ calls[c].pc = "done" /\ calls[c].result.type = "value")
        => \A i \in 1..Len(calls[c].result.value) :
              calls[c].result.value[i].totalCost >= 0

\* C26: provided every Transport request is answered or raises, every
\* getAccessToken call, whether it started the acquisition or awaits it,
\* eventually settles, and every getRates call eventually ends with quotes or
\* with an error; no call waits forever on an acquisition that has settled
C26_EveryCallEnds ==
    \A c \in Calls :
        /\ (calls[c].pc \in {"awaitAcquire", "awaitRefresh"})
              ~> (calls[c].pc \in {"tokenSettled", "done"})
        /\ (calls[c].pc # "idle")
              ~> (calls[c].pc = "done" /\ calls[c].result.type \in {"value", "error"})

\* a call that awaited an acquisition another call had started, and that
\* failed, has ended with its error
C26_Witness ==
    \E c \in Calls :
        /\ IsGetRates(c) /\ calls[c].pc = "done"
        /\ TokenCalls(c)[1].path = "join"
        /\ calls[c].result.type = "error"

C28_UnconfiguredCarrierNotFound ==
    (/\ facade.pc = "responded" /\ facade.op = "getRatesFromCarrier"
     /\ RateRequestSchema(facade.request)
     /\ findCarrier(facade.carrierName) = 0)
    => /\ facade.response.status = 404
       /\ facade.response.body.error.code = "CARRIER_UNAVAILABLE"

\* C29: when a token acquisition settles, the in-flight marker is cleared
\* before any later getAccessToken call looks at the Token Manager: a call that
\* finds no valid token cached never awaits an acquisition that has settled,
\* it awaits one that is outstanding or starts a new one
C29_NoJoinOfSettled ==
    \A ck \in Live :
        Entry(ck).path = "join" => Entry(ck).acq \in Entry(ck).outstandingAtCall

\* C30: the cached token is absent or is the pair (token string, expiry) one
\* successful acquisition produced, its expiry being the time the response was
\* processed plus expires_in seconds; it changes only by being cleared or by
\* being replaced whole when the starter of a successful acquisition resumes,
\* and the string that starter returns is the one installed
C30_TokenIntegrity ==
    [][/\ \A a \in 1..Len(promises) :
             (/\ promises[a] = Pending
              /\ promises'[a].state = "settled"
              /\ promises'[a].settled.type = "value")
             => LET body == promises'[a].answer.body.json
                    produced == promises'[a].settled.value
                IN  /\ produced.accessToken = body.access_token
                    /\ produced.expiresAt = now + body.expires_in * 1000
       /\ token' # token
             => \/ token' = NoToken
                \/ \E c \in Calls :
                      /\ calls[c].pc = "awaitAcquire"
                      /\ promises[calls[c].awaiting].state = "settled"
                      /\ promises[calls[c].awaiting].settled = Value(token')
                      /\ calls'[c].tokenResult = Value(token'.accessToken)
                      /\ DOMAIN token' = {"accessToken", "tokenType", "expiresAt"}]_vars

\* a second acquisition, processed one clock step later, replaced the token of
\* the first
C30_Witness ==
    /\ token # NoToken
    /\ installedBy = 2
    /\ token.expiresAt = ClockStepMs + 120 * 1000
    /\ \E c \in Calls : /\ calls[c].pc \in {"tokenSettled", "done"}
                         /\ TokenCalls(c)[Len(TokenCalls(c))].acq = 2
                         /\ calls[c].tokenResult = Value(token.accessToken)

\* C31: the wire request has one Package entry per domain package, in the same
\* order; an entry has Dimensions exactly when the domain package has
\* dimensions, and an Address has AddressLine exactly when the domain address
\* has at least one street line
C31_WireRequestShape ==
    \A c \in Calls :
        (calls[c].request # NoResult /\ Dispatches(c) >= 1)
        => LET request == calls[c].request
               shipment == calls[c].body.RateRequest.Shipment
           IN  /\ Len(shipment.Package) = Len(request.packages)
               /\ \A i \in 1..Len(request.packages) :
                     /\ Has(shipment.Package[i], "Dimensions")
                           <=> Has(request.packages[i], "dimensions")
                     /\ shipment.Package[i].PackageWeight.Weight =
                            ToString(request.packages[i].weight)
                     /\ Has(request.packages[i], "dimensions")
                           => shipment.Package[i].Dimensions.Length =
                                  ToString(request.packages[i].dimensions.length)
               /\ Has(shipment.Shipper.Address, "AddressLine")
                     <=> Len(request.origin.street) >= 1
               /\ Has(shipment.ShipTo.Address, "AddressLine")
                     <=> Len(request.destination.street) >= 1
               /\ Len(request.destination.street) >= 1
                     => shipment.ShipTo.Address.AddressLine = request.destination.street

\* a request of two packages, the second without dimensions, and with no
\* street line at the origin was dispatched
C31_Witness ==
    /\ Dispatches(1) >= 1
    /\ calls[1].request # NoResult
    /\ Len(calls[1].request.origin.street) = 0
    /\ Len(calls[1].request.packages) = 2
    /\ ~Has(calls[1].body.RateRequest.Shipment.Shipper.Address, "AddressLine")
    /\ Has(calls[1].body.RateRequest.Shipment.Package[1], "Dimensions")
    /\ ~Has(calls[1].body.RateRequest.Shipment.Package[2], "Dimensions")

\* C32: a failed acquisition leaves the cached token as it was and is not
\* remembered: a getAccessToken call made after the failure settled, with no
\* valid token cached, issues a token request of its own; so a call that
\* fails has issued the failing request itself or was awaiting it while it
\* was outstanding
C32_FailureNotRemembered ==
    \A ck \in Live :
        (Returned(Entry(ck)) /\ Entry(ck).result.type = "error")
        => /\ Entry(ck).path \in {"start", "join"}
           /\ ~Entry(ck).replaced
           /\ Entry(ck).path = "join"
                 => Entry(ck).acq \in Entry(ck).outstandingAtCall

\* both calls were rejected with 401 on a token of the same acquisition and
\* have called getAccessToken again
RejectedForSameToken(c, d) ==
    /\ c # d
    /\ IsGetRates(c) /\ IsGetRates(d)
    /\ calls[c].clears = 1 /\ calls[d].clears = 1
    /\ TokenCalls(c)[1].acq = TokenCalls(d)[1].acq

\* C33 as stated: the clearToken of a 401 never discards a newer token that a
\* concurrent call's re-acquisition has installed, so calls rejected for the
\* same stale token cause one re-acquisition in total
C33_Original ==
    \A c, d \in Calls :
        RejectedForSameToken(c, d) => TokenCalls(c)[2].acq = TokenCalls(d)[2].acq

\* C33: the clearToken of a 401 discards whatever token is cached, a newer one
\* included, and the getAccessToken call that follows it is never served from
\* the cache: it starts a token request or awaits the one whose marker is set
C33_ClearIsUnconditional ==
    [][\A c \in Calls :
          calls'[c].clears = calls[c].clears + 1
          => /\ token' = NoToken
             /\ LastCall(c).path \in {"start", "join"}]_vars

\* two calls rejected for the same token each started a re-acquisition: the
\* second clear discarded the token the first re-acquisition had installed
C33_Witness ==
    \E c, d \in Calls :
        /\ RejectedForSameToken(c, d)
        /\ TokenCalls(c)[2].path = "start" /\ TokenCalls(d)[2].path = "start"
        /\ TokenCalls(c)[2].result.type = "value"
        /\ TokenCalls(c)[2].replaced
        /\ TokenCalls(c)[2].acq < TokenCalls(d)[2].acq

\* clearToken runs in this step: called directly, or by a call answered 401
Clears ==
    \/ sinceClear # "clear" /\ sinceClear' = "clear"
    \/ \E c \in Calls : calls'[c].clears = calls[c].clears + 1

\* C34: a clearToken issued while an acquisition is in flight leaves the
\* in-flight marker as it is and does not cancel the acquisition, its callers
\* keep awaiting the same request; when the acquisition succeeds its token is
\* installed as the cached token although the clear came after its start
C34_ClearKeepsAcquisition ==
    [][/\ (Clears /\ tokenRefreshPromise # NoPromise)
          => /\ tokenRefreshPromise' = tokenRefreshPromise
             /\ promises' = promises
             /\ \A d \in Calls :
                   calls[d].awaiting # NoPromise
                   => /\ calls'[d].awaiting = calls[d].awaiting
                      /\ calls'[d].pc = calls[d].pc
       /\ \A c \in Calls :
             (/\ calls[c].pc = "awaitAcquire" /\ calls'[c].pc = "tokenSettled"
              /\ calls'[c].tokenResult.type = "value")
             => /\ token' # NoToken
                /\ token'.accessToken = calls'[c].tokenResult.value
                /\ installedBy' = calls[c].awaiting
                /\ sinceClear = "clear" => sinceClear' = "install"]_vars

\* the token of an acquisition that was in flight when clearToken ran is
\* cached, and a caller that awaited that acquisition has it
C34_Witness ==
    /\ sinceClear = "install"
    /\ token # NoToken
    /\ \E ck \in Live :
          /\ Entry(ck).path = "join"
          /\ Entry(ck).acq = installedBy
          /\ Entry(ck).result = Value(token.accessToken)

\* the cached token was acquired with an expires_in of 60 seconds or less
ShortLived ==
    /\ token # NoToken
    /\ \E i \in Issued : i[1] = token.accessToken /\ i[2] <= 60

\* C35 as stated: every getAccessToken call that starts after the acquisition
\* of such a token settled issues a new token request
C35_Original ==
    [][\A c \in Calls :
          (CallsGetAccessToken(c) /\ ShortLived) => LastCall(c).path = "start"]_vars

\* C35: a token acquired with an expires_in of 60 seconds or less is installed
\* but never served from the cache: a getAccessToken call that finds it cached
\* awaits the acquisition whose in-flight marker is set, and issues a new token
\* request when none is
C35_ShortLivedNeverServed ==
    [][\A c \in Calls :
          (CallsGetAccessToken(c) /\ ShortLived)
          => /\ LastCall(c).path # "hit"
             /\ tokenRefreshPromise = NoPromise => LastCall(c).path = "start"
             /\ tokenRefreshPromise # NoPromise
                   => /\ LastCall(c).path = "join"
                      /\ LastCall(c).acq = tokenRefreshPromise]_vars

\* a call found the token of an expires_in of 60 cached, at the very time of
\* its acquisition, and issued a token request of its own
C35_Witness ==
    /\ ShortLived /\ token.expiresAt = now + 60 * MsPerSecond
    /\ \E c \in Calls :
          /\ calls[c].pc = "awaitAcquire"
          /\ calls[c].awaiting = installedBy + 1
          /\ TokenCalls(c)[Len(TokenCalls(c))].path = "start"
          /\ TokenCalls(c)[Len(TokenCalls(c))].afterClear = "none"

\* C36: a getRates call whose first rating dispatch ends in anything but status
\* 401 (another status, a timeout, a network failure) ends there: it never
\* calls clearToken, fetches no second token and makes exactly one rating
\* dispatch, and the outcome leaves the cached token and the in-flight marker
\* as they were
C36_NoRetryUnless401 ==
    [][\A c \in Calls :
          (/\ calls'[c].op = "getRates"
           /\ Len(calls'[c].responses) >= 1
           /\ ~(/\ calls'[c].responses[1].kind = "response"
                /\ calls'[c].responses[1].status = 401))
          => /\ calls'[c].clears = 0
             /\ Len(calls'[c].tokenCalls) = 1
             /\ Len(calls'[c].authorization) = 1
             /\ Len(calls'[c].responses) = 1
             /\ calls'[c].pc = "done"
             /\ Len(calls[c].responses) = 0
                   => /\ token' = token
                      /\ tokenRefreshPromise' = tokenRefreshPromise
                      /\ promises' = promises]_vars

\* a call whose only dispatch, made with a cached token, was answered 500
C36_Witness ==
    \E c \in Calls :
        /\ calls[c].op = "getRates" /\ calls[c].pc = "done"
        /\ Len(calls[c].responses) = 1
        /\ calls[c].responses[1].kind = "response"
        /\ calls[c].responses[1].status = 500
        /\ token # NoToken
        /\ token.accessToken = calls[c].authorization[1]

\* C37: a getRates call whose token fetch failed dispatches nothing after it
\* (no dispatch at all when the initial fetch fails, no retried dispatch when
\* the re-acquisition after a 401 fails) and fails with the very error
\* getAccessToken threw, whose code is AUTH_FAILED or MALFORMED_RESPONSE
C37_TokenFailureEndsCall ==
    \A c \in Calls :
        (/\ calls[c].op = "getRates"
         /\ Len(TokenCalls(c)) >= 1
         /\ TokenCalls(c)[Len(TokenCalls(c))].result.type = "error")
        => /\ Dispatches(c) = Len(TokenCalls(c)) - 1
           /\ Len(calls[c].responses) = Dispatches(c)
           /\ Len(TokenCalls(c)) = 2 => FirstRejected(c)
           /\ calls[c].pc \in {"tokenSettled", "done"}
           /\ calls[c].pc = "done"
                 => /\ calls[c].result = TokenCalls(c)[Len(TokenCalls(c))].result
                    /\ calls[c].result.error.code
                          \in {"AUTH_FAILED", "MALFORMED_RESPONSE"}

\* the re-acquisition after a 401 was answered without an access token: the
\* call ended with MALFORMED_RESPONSE after its one dispatch
C37_Witness ==
    \E c \in Calls :
        /\ calls[c].op = "getRates" /\ calls[c].pc = "done"
        /\ Len(TokenCalls(c)) = 2 /\ calls[c].clears = 1
        /\ Dispatches(c) = 1
        /\ Failed(TokenCalls(c)[2].result, "MALFORMED_RESPONSE")
        /\ Failed(calls[c].result, "MALFORMED_RESPONSE")

\* C38: getRates fails with NETWORK_ERROR only if its last rating dispatch
\* ended with a failure raised by the Transport that is not a timeout; a
\* dispatch that was answered, whatever the status and the body, never ends
\* in NETWORK_ERROR
C38_NetworkErrorOnlyOnRaise ==
    \A c \in Calls :
        (/\ calls[c].op = "getRates" /\ calls[c].pc = "done"
         /\ Failed(calls[c].result, "NETWORK_ERROR"))
        => /\ Len(calls[c].responses) >= 1
           /\ calls[c].responses[Len(calls[c].responses)].kind = "raise"
           /\ calls[c].responses[Len(calls[c].responses)].message # "Request timeout"

\* C39: response transformation is all-or-nothing: when any one rated shipment
\* of a success envelope has no cost that can be read (no charges, no monetary
\* value in them, or one that is not a number), getRates fails with
\* MALFORMED_RESPONSE and returns no quotes, the well-formed shipments' included
C39_AllOrNothing ==
    \A c \in Calls :
        LET list == Shipments(Envelope(LastResponse(c).body)) IN
        (/\ LastSuccess(c)
         /\ \E i \in 1..Len(list) : ~WellFormed(list[i]))
        => Failed(calls[c].result, "MALFORMED_RESPONSE")

\* a well-formed shipment followed by one with the cost "abc": no quote
C39_Witness ==
    \E c \in Calls :
        /\ LastSuccess(c)
        /\ Shipments(Envelope(LastResponse(c).body)) = <<Ground, BadCost>>
        /\ Failed(calls[c].result, "MALFORMED_RESPONSE")

\* C40: the all-carriers getRates returns the adapters' quotes in the order
\* the adapters are configured, each adapter's quotes in the order the adapter
\* returned them, whichever adapter call completed first
C40_ConfiguredOrder ==
    (facade.op = "getRates" /\ facade.pc = "done" /\ facade.result.type = "value")
    => LET first == QuotesOf(Carriers[1])
           second == QuotesOf(Carriers[2])
           all == facade.result.value
       IN  /\ Len(all) = Len(first) + Len(second)
           /\ \A i \in 1..Len(first) : all[i] = first[i]
           /\ \A j \in 1..Len(second) : all[Len(first) + j] = second[j]

\* the second adapter's call completed at time 0 with one quote, the first
\* adapter's call a clock step later with two: the first adapter's two quotes
\* come first
C40_Witness ==
    /\ facade.op = "getRates" /\ facade.pc = "done"
    /\ facade.result.type = "value" /\ Len(facade.result.value) = 3
    /\ Len(QuotesOf(Carriers[1])) = 2
    /\ QuotesOf(Carriers[1])[1].carrierQuoteId = "01-" \o ToString(ClockStepMs)
    /\ QuotesOf(Carriers[1])[2].serviceLevel = "03"
    /\ QuotesOf(Carriers[2])[1].carrierQuoteId = "03-" \o ToString(0)
    /\ facade.result.value[1].serviceLevel = "01"
    /\ facade.result.value[3] = QuotesOf(Carriers[2])[1]

====
